---- MODULE Spec2Model ----
(***************************************************************************)
(* Market flipper agent: the DecisionActor (budget / purchased ids /       *)
(* stats), the TransactionActor (transaction log) and the InventoryActor   *)
(* (inventory state machine), modelled from the TypeScript sources.        *)
(*                                                                         *)
(* Numbers: prices, budgets and profits are integers (dollars).            *)
(* profit_margin is carried in percent (0.20 is 20).  expected_roi is an   *)
(* exact rational [num, den] in lowest terms.                              *)
(***************************************************************************)
EXTENDS Integers, Sequences, FiniteSets, TLC

VARIABLES
  actorState,        \* DecisionActor.actorState: budget, purchasedIds, stats
  stored,            \* DecisionActor storage record under key 'state', optional
  md,                \* makeDecisions invocations of the DecisionActor
  transactionState,  \* TransactionActor.transactionState
  txBucket,          \* FLIPPER_TRANSACTIONS bucket: key -> serialized transaction
  inventoryState,    \* InventoryActor.inventoryState: inventory map, listedIds
  invBucket,         \* FLIPPER_INVENTORY bucket: id -> serialized item
  rl,                \* relistItems invocations of the InventoryActor
  lastCall,          \* outcome of the last direct ledger / inventory call
  now,               \* the clock read by new Date()
  failures,          \* number of bucket puts that have failed so far
  scan,              \* the orchestrateScan request of the api-router
  listingBucket      \* FLIPPER_LISTINGS bucket: id -> serialized listing

vars == <<actorState, stored, md, transactionState, txBucket,
          inventoryState, invBucket, rl, lastCall, now, failures,
          scan, listingBucket>>

decisionVars == <<actorState, stored, md>>
txVars == <<transactionState, txBucket>>
invVars == <<inventoryState, invBucket, rl>>
scanVars == <<scan, listingBucket>>

(***************************************************************************)
(* Bounds of the model                                                     *)
(***************************************************************************)
MaxBatch == 2      \* longest evaluated list handed to makeDecisions
MaxTx == 2         \* longest transaction log explored
MaxScanned == 2    \* cap on stats.listings_scanned
MaxClock == 1      \* last clock value
MaxFailures == 1   \* bucket puts that may fail in one run
MaxListings == 3   \* longest list handed to the valuation service
MaxPrice == 1000   \* highest listing price handed to the pipeline
MaxStore == 3      \* longest batch handed to storeListings
MaxPriceStep == 6  \* prices go up to 50 * MaxPriceStep

(***************************************************************************)
(* Program constants                                                       *)
(***************************************************************************)
MIN_PROFIT_MARGIN == 20    \* BUSINESS_RULES.MIN_PROFIT_MARGIN = 0.20, in percent
MIN_PROFIT == 50           \* BUSINESS_RULES.MIN_PROFIT
InitialBudget == 5000      \* createInitialState().budget

\* an optional value (undefined | v) is the sequence <<>> or <<v>>
Undefined == <<>>
Some(v) == <<v>>

Invs == {"i1", "i2"}       \* names of overlapping invocations

(***************************************************************************)
(* Inputs: evaluated listings.  Every listing has price > 0 (the scraper   *)
(* rejects price <= 0 before a listing is stored).                         *)
(***************************************************************************)
\* the marketplace and the category a listing id was scraped under
MarketplaceOf(id) == IF id = "a" THEN "ebay" ELSE "craigslist"
CategoryOf(id) == IF id = "b" THEN "gaming" ELSE "electronics"

Item(id, price, profit, margin, score) ==
  [id |-> id, title |-> <<"title", id>>, url |-> <<"url", id>>,
   marketplace |-> MarketplaceOf(id), category |-> CategoryOf(id),
   price |-> price, profit_potential |-> profit,
   profit_margin |-> margin, score |-> score,
   estimated_resale |-> price + profit]

Catalogue ==
  { Item("a", 3000, 1500, 50, 90),    \* passes every check
    Item("b", 3000, 1500, 50, 80),    \* passes; a + b exceed 5000
    Item("a", 2000,   60, 60, 70),    \* same id as the first, other price
    Item("c",  200,   40, 20, 65),    \* margin at the threshold, profit too low
    Item("c",  100,   10, 10, 40) }   \* margin too low and profit too low

ItemIds == {it.id : it \in Catalogue}

RECURSIVE SeqsUpTo(_, _)
SeqsUpTo(S, n) ==
  IF n = 0 THEN {<<>>}
  ELSE LET shorter == SeqsUpTo(S, n - 1)
       IN shorter \cup {Append(s, x) : s \in {t \in shorter : Len(t) = n - 1}, x \in S}

Batches == SeqsUpTo(Catalogue, MaxBatch)

\* the budget argument of makeDecisions and config.budget of updateConfig
BudgetArgs == {Undefined, Some(5000)}
ConfigBudgets == {Undefined, Some(-100)}

(***************************************************************************)
(* Helpers                                                                 *)
(***************************************************************************)
SetOf(s) == {s[i] : i \in DOMAIN s}

\* a put may fail (putOk = FALSE) while the failure budget lasts
PutOutcome(putOk) ==
  /\ putOk \/ failures < MaxFailures
  /\ failures' = IF putOk THEN failures ELSE failures + 1

RECURSIVE SumSeq(_)
SumSeq(s) == IF s = <<>> THEN 0 ELSE s[1] + SumSeq(Tail(s))

RECURSIVE GCD(_, _)
GCD(x, y) == IF y = 0 THEN x ELSE GCD(y, x % y)

Abs(x) == IF x < 0 THEN -x ELSE x

\* the rational n / d (d > 0) in lowest terms
Ratio(n, d) ==
  LET g == GCD(Abs(n), d)
  IN [num |-> n \div g, den |-> d \div g]

Zero == [num |-> 0, den |-> 1]

(***************************************************************************)
(* decision-actor/model.ts                                                 *)
(***************************************************************************)
createInitialState ==
  [budget |-> InitialBudget,
   purchasedIds |-> <<>>,     \* a Set<string>, in insertion order
   stats |-> [listings_scanned |-> 0, items_purchased |-> 0, items_listed |-> 0,
              total_invested |-> 0, potential_revenue |-> 0,
              expected_profit |-> 0, expected_roi |-> Zero]]

validateBudget(price, currentBudget) ==
  IF currentBudget <= 0 THEN FALSE ELSE price <= currentBudget

\* faulty variant: the duplicate check never fires
hasPurchased_never(id, state) == FALSE

hasPurchased(id, state) == id \in SetOf(state.purchasedIds)

\* faulty variant: the set is replaced by the new id instead of extended
addPurchasedId_replace(id, state) == [state EXCEPT !.purchasedIds = <<id>>]

addPurchasedId(id, state) ==
  IF id \in SetOf(state.purchasedIds) THEN state
  ELSE [state EXCEPT !.purchasedIds = Append(@, id)]

\* faulty variant: items_purchased is not counted
updateStats_noCount(decision, state) ==
  IF decision.action = "BUY"
  THEN LET s1 == [state.stats EXCEPT
                    !.total_invested = @ + decision.price,
                    !.expected_profit = @ + decision.profit_potential,
                    !.potential_revenue = @ + decision.price + decision.profit_potential]
           s2 == IF s1.total_invested > 0
                 THEN [s1 EXCEPT !.expected_roi =
                         Ratio(s1.expected_profit * 100, s1.total_invested)]
                 ELSE s1
       IN [state EXCEPT !.stats = s2]
  ELSE state

\* faulty variant: potential_revenue grows by the price only
updateStats_revenue(decision, state) ==
  IF decision.action = "BUY"
  THEN LET s1 == [state.stats EXCEPT
                    !.items_purchased = @ + 1,
                    !.total_invested = @ + decision.price,
                    !.expected_profit = @ + decision.profit_potential,
                    !.potential_revenue = @ + decision.price]
           s2 == IF s1.total_invested > 0
                 THEN [s1 EXCEPT !.expected_roi =
                         Ratio(s1.expected_profit * 100, s1.total_invested)]
                 ELSE s1
       IN [state EXCEPT !.stats = s2]
  ELSE state

updateStats(decision, state) ==
  IF decision.action = "BUY"
  THEN LET s1 == [state.stats EXCEPT
                    !.items_purchased = @ + 1,
                    !.total_invested = @ + decision.price,
                    !.expected_profit = @ + decision.profit_potential,
                    !.potential_revenue = @ + decision.price + decision.profit_potential]
           s2 == IF s1.total_invested > 0
                 THEN [s1 EXCEPT !.expected_roi =
                         Ratio(s1.expected_profit * 100, s1.total_invested)]
                 ELSE s1
       IN [state EXCEPT !.stats = s2]
  ELSE state

(***************************************************************************)
(* decision-actor/controller.ts                                            *)
(***************************************************************************)
Decision(action, item, reasoning) ==
  [action |-> action, item_id |-> item.id, price |-> item.price,
   score |-> item.score, profit_potential |-> item.profit_potential,
   reasoning |-> reasoning]

AlreadyPurchased == <<"Already purchased this item">>

\* faulty variant: the budget check runs before the duplicate check
evaluateOpportunity_budgetFirst(item, state) ==
  IF ~validateBudget(item.price, state.budget)
  THEN Decision("SKIP", item, <<"Exceeds budget", item.price, state.budget>>)
  ELSE IF hasPurchased(item.id, state)
  THEN Decision("SKIP", item, AlreadyPurchased)
  ELSE IF item.profit_margin < MIN_PROFIT_MARGIN
  THEN Decision("SKIP", item,
                <<"Profit margin too low", item.profit_margin, MIN_PROFIT_MARGIN>>)
  ELSE IF item.profit_potential < MIN_PROFIT
  THEN Decision("SKIP", item,
                <<"Profit amount too low", item.profit_potential, MIN_PROFIT>>)
  ELSE Decision("BUY", item,
                <<"Strong opportunity", item.profit_potential,
                  item.profit_margin, item.score>>)

evaluateOpportunity(item, state) ==
  IF hasPurchased(item.id, state)
  THEN Decision("SKIP", item, AlreadyPurchased)
  ELSE IF ~validateBudget(item.price, state.budget)
  THEN Decision("SKIP", item, <<"Exceeds budget", item.price, state.budget>>)
  ELSE IF item.profit_margin < MIN_PROFIT_MARGIN
  THEN Decision("SKIP", item,
                <<"Profit margin too low", item.profit_margin, MIN_PROFIT_MARGIN>>)
  ELSE IF item.profit_potential < MIN_PROFIT
  THEN Decision("SKIP", item,
                <<"Profit amount too low", item.profit_potential, MIN_PROFIT>>)
  ELSE Decision("BUY", item,
                <<"Strong opportunity", item.profit_potential,
                  item.profit_margin, item.score>>)

\* faulty variant: a BUY does not lower the budget
DecideStep_noDeduct(item, state) ==
  LET decision == evaluateOpportunity(item, state)
  IN IF decision.action = "BUY"
     THEN updateStats(decision, addPurchasedId(item.id, state))
     ELSE state

\* faulty variant: the price is deducted for every decision, SKIP included
DecideStep_alwaysDeduct(item, state) ==
  LET decision == evaluateOpportunity(item, state)
      s == IF decision.action = "BUY"
           THEN updateStats(decision, addPurchasedId(item.id, state))
           ELSE state
  IN [s EXCEPT !.budget = @ - decision.price]

\* one iteration of the loop of makeDecisions: the state after the decision
DecideStep(item, state) ==
  LET decision == evaluateOpportunity(item, state)
  IN IF decision.action = "BUY"
     THEN LET s1 == addPurchasedId(item.id, state)
              s2 == updateStats(decision, s1)
          IN [s2 EXCEPT !.budget = @ - decision.price]
     ELSE state

\* the loop of makeDecisions over the existing state; trace[n] records the
\* n-th iteration: the listing, its decision, the state before and after
RECURSIVE makeDecisions(_, _)
makeDecisions(evaluated, state) ==
  IF evaluated = <<>>
  THEN [decisions |-> <<>>, state |-> state, trace |-> <<>>]
  ELSE LET item == Head(evaluated)
           decision == evaluateOpportunity(item, state)
           after == DecideStep(item, state)
           rest == makeDecisions(Tail(evaluated), after)
       IN [decisions |-> <<decision>> \o rest.decisions,
           state |-> rest.state,
           trace |-> <<[item |-> item, decision |-> decision,
                        before |-> state, after |-> after]>> \o rest.trace]

IsBuy(d) == d.action = "BUY"

\* faulty variant: processPurchases walks every decision
buyDecisions_all(decisions) == decisions

buyDecisions(decisions) == SelectSeq(decisions, IsBuy)

\* new Map(evaluated.map(item => [item.id, item])).get(id): the last listing
\* of the list with that id, undefined when there is none
evaluatedMapGet(evaluated, id) ==
  LET idx == {n \in DOMAIN evaluated : evaluated[n].id = id}
  IN IF idx = {} THEN Undefined
     ELSE Some(evaluated[CHOOSE n \in idx : \A m \in idx : m <= n])

(***************************************************************************)
(* transaction-actor/model.ts and controller.ts                            *)
(***************************************************************************)
initialTransactionState ==
  [totalInvested |-> 0, potentialRevenue |-> 0, transactions |-> <<>>]

\* bucket.put(key, value): the value stored under key is replaced
Put(bucket, key, value) ==
  [x \in DOMAIN bucket \cup {key} |-> IF x = key THEN value ELSE bucket[x]]

EmptyBucket == [x \in {} |-> Undefined]

transactionId(transaction) ==
  <<transaction.type, transaction.item_id, transaction.timestamp>>

\* recordTransaction: put under type_itemId_timestamp; a failing put is
\* logged and rethrown
recordTransaction(transaction, bucket, putOk) ==
  IF putOk
  THEN [threw |-> FALSE, bucket |-> Put(bucket, transactionId(transaction), transaction)]
  ELSE [threw |-> TRUE, bucket |-> bucket]

\* faulty variant: a sale is added to totalInvested
updateFinancialState_saleInvested(transaction, state) ==
  [state EXCEPT !.totalInvested = @ + transaction.amount]

updateFinancialState(transaction, state) ==
  IF transaction.type = "purchase"
  THEN [state EXCEPT !.totalInvested = @ + transaction.amount]
  ELSE IF transaction.type = "sale"
  THEN [state EXCEPT !.potentialRevenue = @ + transaction.amount]
  ELSE state

IsPurchaseTx(tx) == tx.type = "purchase"
IsSaleTx(tx) == tx.type = "sale"

Amounts(transactions) == [n \in DOMAIN transactions |-> transactions[n].amount]

calculateSpent(state) == SumSeq(Amounts(SelectSeq(state.transactions, IsPurchaseTx)))

calculateRevenue(state) == SumSeq(Amounts(SelectSeq(state.transactions, IsSaleTx)))

\* expected_roi is the exact quotient, not a percentage
getFinancialStats(state) ==
  LET expectedProfit == state.potentialRevenue - state.totalInvested
  IN [total_invested |-> state.totalInvested,
      potential_revenue |-> state.potentialRevenue,
      expected_profit |-> expectedProfit,
      expected_roi |-> IF state.totalInvested = 0 THEN Zero
                       ELSE Ratio(expectedProfit, state.totalInvested),
      transaction_count |-> Len(state.transactions)]

\* faulty variant: the state is updated before the transaction is recorded
processTransaction_updateFirst(transaction, state, bucket, putOk) ==
  LET rec == recordTransaction(transaction, bucket, putOk)
      s1 == updateFinancialState(transaction, state)
  IN [threw |-> rec.threw,
      state |-> [s1 EXCEPT !.transactions = Append(@, transaction)],
      bucket |-> rec.bucket]

\* the body shared by processPurchase and processResale after the
\* transaction object is built
processTransaction(transaction, state, bucket, putOk) ==
  LET rec == recordTransaction(transaction, bucket, putOk)
  IN IF rec.threw
     THEN [threw |-> TRUE, state |-> state, bucket |-> rec.bucket]
     ELSE LET s1 == updateFinancialState(transaction, state)
          IN [threw |-> FALSE,
              state |-> [s1 EXCEPT !.transactions = Append(@, transaction)],
              bucket |-> rec.bucket]

processPurchase(item, state, bucket, time, putOk) ==
  processTransaction([type |-> "purchase", item_id |-> item.id,
                      amount |-> item.price, timestamp |-> time],
                     state, bucket, putOk)

processResale(item, state, bucket, time, putOk) ==
  LET resaleAmount == IF item.resale_price # Undefined
                      THEN item.resale_price[1] ELSE item.estimated_resale
  IN processTransaction([type |-> "sale", item_id |-> item.id,
                         amount |-> resaleAmount, timestamp |-> time],
                        state, bucket, putOk)

(***************************************************************************)
(* inventory-actor/model.ts and controller.ts                              *)
(***************************************************************************)
Statuses == {"purchased", "listed", "sold"}

initialInventoryState == [inventory |-> <<>>, listedIds |-> {}]

\* state.inventory is a Map in insertion order: a sequence of items with
\* distinct ids
invHas(inventory, id) == \E n \in DOMAIN inventory : inventory[n].id = id

invGet(inventory, id) ==
  inventory[CHOOSE n \in DOMAIN inventory : inventory[n].id = id]

invSet(inventory, id, item) ==
  IF invHas(inventory, id)
  THEN [n \in DOMAIN inventory |->
          IF inventory[n].id = id THEN item ELSE inventory[n]]
  ELSE Append(inventory, item)

InventoryItem(item, time) ==
  [id |-> item.id, title |-> item.title, url |-> item.url,
   marketplace |-> item.marketplace, category |-> item.category,
   price |-> item.price, profit_potential |-> item.profit_potential,
   profit_margin |-> item.profit_margin, score |-> item.score,
   estimated_resale |-> item.estimated_resale,
   purchase_date |-> time, status |-> "purchased",
   resale_price |-> Undefined, listed_date |-> Undefined]

\* addToInventory: the map is written first, then the bucket
addToInventory(item, state, bucket, putOk) ==
  LET s1 == [state EXCEPT !.inventory = invSet(@, item.id, item)]
  IN IF putOk
     THEN [threw |-> FALSE, state |-> s1, bucket |-> Put(bucket, item.id, item)]
     ELSE [threw |-> TRUE, state |-> s1, bucket |-> bucket]

processNewPurchase(item, state, bucket, time, putOk) ==
  addToInventory(InventoryItem(item, time), state, bucket, putOk)

\* updateItemStatus up to its await: the item of the map is changed in place
updateItemStatusSync(id, status, state, time) ==
  LET item == invGet(state.inventory, id)
      i1 == [item EXCEPT !.status = status]
      i2 == IF status = "listed" THEN [i1 EXCEPT !.listed_date = Some(time)] ELSE i1
  IN [inventory |-> invSet(state.inventory, id, i2),
      listedIds |-> IF status = "listed" THEN state.listedIds \cup {id}
                    ELSE state.listedIds]

updateItemStatus(id, status, state, bucket, time, putOk) ==
  IF ~invHas(state.inventory, id)
  THEN [threw |-> TRUE, state |-> state, bucket |-> bucket]
  ELSE LET s1 == updateItemStatusSync(id, status, state, time)
       IN IF putOk
          THEN [threw |-> FALSE, state |-> s1,
                bucket |-> Put(bucket, id, invGet(s1.inventory, id))]
          ELSE [threw |-> TRUE, state |-> s1, bucket |-> bucket]

createReListing(item, time) ==
  [id |-> <<"resale_", item.id>>, title |-> item.title,
   price |-> item.estimated_resale, url |-> item.url,
   marketplace |-> item.marketplace, category |-> item.category,
   timestamp |-> time]

\* faulty variant: the sweep takes every item that is not sold
IsPurchased_notSold(item) == item.status # "sold"

IsPurchased(item) == item.status = "purchased"

(***************************************************************************)
(* decision-actor/index.ts: the DecisionActor                              *)
(***************************************************************************)
RECURSIVE Dedupe(_)
Dedupe(s) ==
  IF s = <<>> THEN <<>>
  ELSE LET front == Dedupe(SubSeq(s, 1, Len(s) - 1))
           last == s[Len(s)]
       IN IF last \in SetOf(front) THEN front ELSE Append(front, last)

\* faulty variant: the purchased ids are left out of the record
Persisted_noIds(state) ==
  [budget |-> state.budget, purchasedIds |-> <<>>, stats |-> state.stats]

\* the PersistedState written by saveState: purchasedIds as an array
Persisted(state) ==
  [budget |-> state.budget, purchasedIds |-> state.purchasedIds,
   stats |-> state.stats]

\* the constructor: the default state, replaced by the stored record if any
LoadState(record) ==
  IF record = Undefined THEN createInitialState
  ELSE [budget |-> record[1].budget,
        purchasedIds |-> Dedupe(record[1].purchasedIds),
        stats |-> record[1].stats]

NoCall == [op |-> "none"]

IdleMd ==
  [pc |-> "idle", evaluated |-> <<>>, budget |-> Undefined,
   decisions |-> <<>>, trace |-> <<>>, pre |-> createInitialState,
   k |-> 1, calls |-> <<>>, error |-> "none"]

Running(i) == md[i].pc # "idle"
NoneRunning == \A i \in Invs : ~Running(i)

\* faulty variant: a ledger failure restores the state from before the batch
OnLedgerFailure_rollback(i, state) == md[i].pre

\* what a ledger failure leaves in the actor's memory: makeDecisions has no
\* catch, the state mutated by the decision loop stays
OnLedgerFailure(i, state) == state

\* makeDecisions up to its first await on another actor: the budget
\* argument, the decision loop, listings_scanned, the start of
\* processPurchases
MakeDecisionsBegin(i, evaluated, budget) ==
  /\ ~Running(i)
  /\ actorState.stats.listings_scanned + Len(evaluated) <= MaxScanned
  /\ LET s0 == IF budget # Undefined
               THEN [actorState EXCEPT !.budget = budget[1]] ELSE actorState
         r == makeDecisions(evaluated, s0)
     IN /\ Len(transactionState.transactions)
             + Len(buyDecisions(r.decisions)) <= MaxTx
        /\ actorState' = [r.state EXCEPT
                            !.stats.listings_scanned = @ + Len(evaluated)]
        /\ md' = [md EXCEPT ![i] =
                    [pc |-> IF buyDecisions(r.decisions) = <<>> THEN "save" ELSE "tx",
                     evaluated |-> evaluated, budget |-> budget,
                     decisions |-> r.decisions, trace |-> r.trace, pre |-> s0,
                     k |-> 1, calls |-> <<>>, error |-> "none"]]
  /\ lastCall' = NoCall
  /\ UNCHANGED <<stored, txVars, invVars, now, failures>>

\* the position after the k-th BUY of processPurchases is done
NextBuy(i) ==
  IF md[i].k + 1 > Len(buyDecisions(md[i].decisions))
  THEN [md[i] EXCEPT !.pc = "save", !.k = @ + 1]
  ELSE [md[i] EXCEPT !.pc = "tx", !.k = @ + 1]

\* await transactionActorStub.processPurchase(evaluatedItem)
LedgerTransaction(i, putOk) ==
  /\ md[i].pc = "tx"
  /\ LET decision == buyDecisions(md[i].decisions)[md[i].k]
         evaluatedItem == evaluatedMapGet(md[i].evaluated, decision.item_id)
     IN IF evaluatedItem = Undefined
        THEN /\ putOk
             /\ md' = [md EXCEPT ![i] = NextBuy(i)]
             /\ UNCHANGED <<actorState, txVars, failures>>
        ELSE LET r == processPurchase(evaluatedItem[1], transactionState,
                                      txBucket, now, putOk)
                 call == [op |-> "processPurchase", k |-> md[i].k,
                          item |-> evaluatedItem[1]]
             IN /\ PutOutcome(putOk)
                /\ transactionState' = r.state
                /\ txBucket' = r.bucket
                /\ IF r.threw
                   THEN /\ md' = [md EXCEPT ![i].pc = "failed",
                                             ![i].error = "ledger",
                                             ![i].calls = Append(@, call)]
                        /\ actorState' = OnLedgerFailure(i, actorState)
                   ELSE /\ md' = [md EXCEPT ![i].pc = "inv",
                                             ![i].calls = Append(@, call)]
                        /\ UNCHANGED actorState
  /\ UNCHANGED <<stored, invVars, lastCall, now, scanVars>>

\* await inventoryActorStub.processNewPurchase(evaluatedItem)
LedgerInventory(i, putOk) ==
  /\ PutOutcome(putOk)
  /\ md[i].pc = "inv"
  /\ LET decision == buyDecisions(md[i].decisions)[md[i].k]
         evaluatedItem == evaluatedMapGet(md[i].evaluated, decision.item_id)[1]
         r == processNewPurchase(evaluatedItem, inventoryState, invBucket,
                                 now, putOk)
         call == [op |-> "processNewPurchase", k |-> md[i].k,
                  item |-> evaluatedItem]
     IN /\ inventoryState' = r.state
        /\ invBucket' = r.bucket
        /\ IF r.threw
           THEN /\ md' = [md EXCEPT ![i].pc = "failed", ![i].error = "ledger",
                                     ![i].calls = Append(@, call)]
                /\ actorState' = OnLedgerFailure(i, actorState)
           ELSE /\ md' = [md EXCEPT ![i] = [NextBuy(i) EXCEPT
                                              !.calls = Append(@, call)]]
                /\ UNCHANGED actorState
  /\ UNCHANGED <<stored, txVars, rl, lastCall, now, scanVars>>

\* faulty variant: an invocation saves the state it started from
StateToSave_atStart(i) == md[i].pre

\* saveState reads this.actorState, the one state all invocations share
StateToSave(i) == actorState

\* await this.saveState(): the storage put of the actor's own state
SaveState(i) ==
  /\ md[i].pc = "save"
  /\ stored' = Some(Persisted(StateToSave(i)))
  /\ md' = [md EXCEPT ![i].pc = "done"]
  /\ UNCHANGED <<actorState, txVars, invVars, lastCall, now, failures, scanVars>>

\* makeDecisions hands its decisions, or the error, to its caller
MakeDecisionsReturn(i) ==
  /\ md[i].pc \in {"done", "failed"}
  /\ md' = [md EXCEPT ![i] = IdleMd]
  /\ UNCHANGED <<actorState, stored, txVars, invVars, lastCall, now, failures, scanVars>>

getStats ==
  /\ NoneRunning
  /\ lastCall' = [op |-> "getStats", result |-> actorState.stats]
  /\ UNCHANGED <<decisionVars, txVars, invVars, now, failures, scanVars>>

\* updateConfig on the actor's memory: only config.budget is read
configure(budget, state) ==
  IF budget # Undefined THEN [state EXCEPT !.budget = budget[1]] ELSE state

updateConfig(budget) ==
  /\ NoneRunning
  /\ actorState' = configure(budget, actorState)
  /\ stored' = Some(Persisted(actorState'))
  /\ lastCall' = NoCall
  /\ UNCHANGED <<md, txVars, invVars, now, failures, scanVars>>

resetState ==
  /\ NoneRunning
  /\ actorState' = createInitialState
  /\ stored' = Some(Persisted(actorState'))
  /\ lastCall' = NoCall
  /\ UNCHANGED <<md, txVars, invVars, now, failures, scanVars>>

\* the actor is evicted and constructed again from its storage
Restart ==
  /\ NoneRunning
  /\ actorState' = LoadState(stored)
  /\ lastCall' = NoCall
  /\ UNCHANGED <<stored, md, txVars, invVars, now, failures, scanVars>>

(***************************************************************************)
(* valuation-service/model.ts and controller.ts.  Scores and the profit    *)
(* margin are exact rationals [num, den] in lowest terms; a title is the   *)
(* sequence of its lower-cased words.                                      *)
(***************************************************************************)
WEIGHT_HISTORICAL == 40    \* 0.40, in percent
WEIGHT_MSRP == 25          \* 0.25
WEIGHT_SCARCITY == 20      \* 0.20
WEIGHT_RATIO == 15         \* 0.15
UNDERVALUED_SCORE == 60    \* totalScore >= 60

SCARCITY_KEYWORDS == {"limited", "rare", "discontinued", "pro", "max", "ultra"}

HistoricalData(avg, min, max, msrp) ==
  [avg |-> avg, min |-> min, max |-> max, msrp |-> msrp]

MOCK_HISTORICAL_DATA ==
  [key \in {"iphone", "macbook", "ps5", "laptop", "tv"} |->
     CASE key = "iphone"  -> HistoricalData(650, 400, 1200, 999)
       [] key = "macbook" -> HistoricalData(900, 600, 1500, 1299)
       [] key = "ps5"     -> HistoricalData(450, 350, 600, 499)
       [] key = "laptop"  -> HistoricalData(700, 400, 1200, 999)
       [] key = "tv"      -> HistoricalData(400, 200, 800, 599)]

DEFAULT_HISTORICAL_DATA == HistoricalData(500, 300, 800, 699)

getHistoricalPrices(productKey) ==
  IF productKey \in DOMAIN MOCK_HISTORICAL_DATA
  THEN MOCK_HISTORICAL_DATA[productKey] ELSE DEFAULT_HISTORICAL_DATA

Whole(n) == [num |-> n, den |-> 1]

LCM(x, y) == (x \div GCD(x, y)) * y

\* the order of two non-negative rationals a/b and c/d: -1, 0 or 1, by the
\* integer parts and then the reciprocals of the fractional parts
RECURSIVE Compare(_, _, _, _)
Compare(a, b, c, d) ==
  IF a \div b # c \div d THEN (IF a \div b < c \div d THEN -1 ELSE 1)
  ELSE IF a % b = 0 /\ c % d = 0 THEN 0
  ELSE IF a % b = 0 THEN -1
  ELSE IF c % d = 0 THEN 1
  ELSE Compare(d, c % d, b, a % b)

ScoreCompare(x, y) == Compare(x.num, x.den, y.num, y.den)

\* faulty variant: the interpolation rises with the price
calculateHistoricalScore_rising(current, historical) ==
  IF historical.min = historical.max THEN Whole(100)
  ELSE IF current <= historical.min THEN Whole(100)
  ELSE IF current >= historical.max THEN Whole(0)
  ELSE Ratio(100 * (current - historical.min), historical.max - historical.min)

calculateHistoricalScore(current, historical) ==
  IF historical.min = historical.max THEN Whole(100)
  ELSE IF current <= historical.min THEN Whole(100)
  ELSE IF current >= historical.max THEN Whole(0)
  ELSE Ratio(100 * (historical.max - current), historical.max - historical.min)

calculateMSRPScore(current, msrp) ==
  IF msrp = 0 THEN Whole(0)
  ELSE IF current >= msrp THEN Whole(0)
  ELSE IF 2 * current <= msrp THEN Whole(100)
  ELSE Ratio(200 * (msrp - current), msrp)

calculateScarcityScore(title) ==
  IF SetOf(title) \cap SCARCITY_KEYWORDS # {} THEN Whole(100) ELSE Whole(50)

calculatePriceRatioScore(current, avg) ==
  IF avg = 0 THEN Whole(0)
  ELSE IF current >= avg THEN Whole(0)
  ELSE IF 10 * current <= 7 * avg THEN Whole(100)
  ELSE Ratio(1000 * (avg - current), 3 * avg)

extractProductKey(title) ==
  IF "iphone" \in SetOf(title) THEN "iphone"
  ELSE IF "macbook" \in SetOf(title) THEN "macbook"
  ELSE IF "ps5" \in SetOf(title) THEN "ps5"
  ELSE IF "laptop" \in SetOf(title) THEN "laptop"
  ELSE IF "tv" \in SetOf(title) THEN "tv"
  ELSE IF title # <<>> THEN title[1] ELSE "unknown"

\* h * 0.40 + m * 0.25 + s * 0.20 + r * 0.15
totalScore(h, m, sc, r) ==
  LET L == LCM(LCM(h.den, m.den), LCM(sc.den, r.den))
      num == WEIGHT_HISTORICAL * h.num * (L \div h.den)
             + WEIGHT_MSRP * m.num * (L \div m.den)
             + WEIGHT_SCARCITY * sc.num * (L \div sc.den)
             + WEIGHT_RATIO * r.num * (L \div r.den)
  IN Ratio(num, 100 * L)

\* faulty variant: the flag asks for a score of 70
isUndervalued_score70(score, profitMargin, profitPotential) ==
  /\ ScoreCompare(score, Whole(70)) >= 0
  /\ profitMargin.num * 100 >= MIN_PROFIT_MARGIN * profitMargin.den
  /\ profitPotential >= MIN_PROFIT

\* faulty variant: the profit margin is not tested
isUndervalued_noMargin(score, profitMargin, profitPotential) ==
  /\ ScoreCompare(score, Whole(UNDERVALUED_SCORE)) >= 0
  /\ profitPotential >= MIN_PROFIT

\* faulty variant: only the profit amount is tested
isUndervalued_profitOnly(score, profitMargin, profitPotential) ==
  profitPotential >= MIN_PROFIT

isUndervalued(score, profitMargin, profitPotential) ==
  /\ ScoreCompare(score, Whole(UNDERVALUED_SCORE)) >= 0
  /\ profitMargin.num * 100 >= MIN_PROFIT_MARGIN * profitMargin.den
  /\ profitPotential >= MIN_PROFIT

evaluateSingleListing(listing) ==
  LET historical == getHistoricalPrices(extractProductKey(listing.title))
      historicalScore == calculateHistoricalScore(listing.price, historical)
      msrpScore == calculateMSRPScore(listing.price, historical.msrp)
      scarcityScore == calculateScarcityScore(listing.title)
      ratioScore == calculatePriceRatioScore(listing.price, historical.avg)
      score == totalScore(historicalScore, msrpScore, scarcityScore, ratioScore)
      estimatedResale == historical.avg
      profitPotential == estimatedResale - listing.price
      profitMargin == Ratio(profitPotential, listing.price)
  IN [id |-> listing.id, title |-> listing.title, price |-> listing.price,
      is_undervalued |-> isUndervalued(score, profitMargin, profitPotential),
      score |-> score, estimated_resale |-> estimatedResale,
      profit_potential |-> profitPotential, profit_margin |-> profitMargin,
      scores_breakdown |-> [historical |-> historicalScore, msrp |-> msrpScore,
                            scarcity |-> scarcityScore, ratio |-> ratioScore]]

\* faulty variant: an element goes before the elements of equal score
sortInsert_beforeEqual(sorted, x) ==
  LET before == {n \in DOMAIN sorted : ScoreCompare(sorted[n].score, x.score) > 0}
      k == Cardinality(before)
  IN SubSeq(sorted, 1, k) \o <<x>> \o SubSeq(sorted, k + 1, Len(sorted))

\* x enters a list sorted by score descending behind every element whose
\* score is not lower than its own
sortInsert(sorted, x) ==
  LET before == {n \in DOMAIN sorted : ScoreCompare(sorted[n].score, x.score) >= 0}
      k == Cardinality(before)
  IN SubSeq(sorted, 1, k) \o <<x>> \o SubSeq(sorted, k + 1, Len(sorted))

\* evaluated.sort((a, b) => b.score - a.score): a stable sort
RECURSIVE sortByScore(_)
sortByScore(evaluated) ==
  IF evaluated = <<>> THEN <<>>
  ELSE sortInsert(sortByScore(SubSeq(evaluated, 1, Len(evaluated) - 1)),
                  evaluated[Len(evaluated)])

evaluateListings(listings) ==
  IF Len(listings) = 0 THEN <<>>
  ELSE sortByScore([n \in DOMAIN listings |-> evaluateSingleListing(listings[n])])

Listing(id, title, price) == [id |-> id, title |-> title, price |-> price]

\* listings handed to the valuation service, price > 0
ScrapedListings ==
  { Listing("v1", <<"ps5">>, 375),              \* score between 60 and 70, flagged
    Listing("v2", <<"ps5">>, 375),              \* the same score under another id
    Listing("v3", <<"rare", "ps5">>, 375),      \* scarcity keyword
    Listing("v4", <<"tv">>, 150),               \* every heuristic at its best
    Listing("v5", <<"tv">>, 340),               \* margin below 0.20
    Listing("v6", <<"gadget">>, 416),           \* unknown product, default data
    Listing("v7", <<"gadget">>, 900),           \* priced above the average
    Listing("v8", <<"macbook">>, 850),          \* profit 50, score below 60
    Listing("v9", <<"iphone", "pro">>, 400) }   \* score 100

\* prices and historical ranges the heuristic is applied to
Prices == {50 * k : k \in 0..MaxPriceStep}

PriceRanges ==
  {HistoricalData(200, lo, hi, 300) : lo \in {100, 150, 200}, hi \in {150, 200, 250}}

\* calculateHistoricalScore applied to two prices against one reference
Heuristic_calculateHistoricalScore ==
  /\ lastCall.op = "scoreRequest"
  /\ lastCall' = [op |-> "calculateHistoricalScore",
                  historical |-> lastCall.historical,
                  prices |-> lastCall.prices,
                  scores |-> [n \in DOMAIN lastCall.prices |->
                                calculateHistoricalScore(lastCall.prices[n],
                                                         lastCall.historical)]]
  /\ UNCHANGED <<decisionVars, txVars, invVars, now, failures, scanVars>>

\* ValuationService.evaluateListings(listings) answers a pending request
ValuationService_evaluateListings ==
  /\ lastCall.op = "request"
  /\ lastCall' = [op |-> "evaluateListings", listings |-> lastCall.listings,
                  evaluated |-> evaluateListings(lastCall.listings)]
  /\ UNCHANGED <<decisionVars, txVars, invVars, now, failures, scanVars>>

(***************************************************************************)
(* scraper-service/model.ts and controller.ts                              *)
(***************************************************************************)
\* a listing as the scrapers hand it over: each field may be missing
ScrapedListing(id, title, price, marketplace) ==
  [id |-> id, title |-> title, price |-> price, marketplace |-> marketplace]

VALID_MARKETPLACES == {"ebay", "craigslist", "facebook"}

\* !field for a string field: undefined or the empty string; a title is a
\* sequence of words, the empty string is the empty sequence
Missing(field) == field = Undefined \/ field[1] = ""
MissingTitle(field) == field = Undefined \/ field[1] = <<>>

\* faulty variant: a price of zero is accepted
validateListing_zeroPrice(listing) ==
  IF \/ Missing(listing.id) \/ MissingTitle(listing.title)
     \/ listing.price = Undefined \/ Missing(listing.marketplace)
  THEN "Invalid listing: missing required fields"
  ELSE IF listing.price[1] < 0
  THEN "Invalid listing: price must be greater than 0"
  ELSE IF listing.marketplace[1] \notin VALID_MARKETPLACES
  THEN "Invalid listing: invalid marketplace"
  ELSE "ok"

\* validateListing: "ok", or the message of the error it throws
validateListing(listing) ==
  IF \/ Missing(listing.id) \/ MissingTitle(listing.title)
     \/ listing.price = Undefined \/ Missing(listing.marketplace)
  THEN "Invalid listing: missing required fields"
  ELSE IF listing.price[1] <= 0
  THEN "Invalid listing: price must be greater than 0"
  ELSE IF listing.marketplace[1] \notin VALID_MARKETPLACES
  THEN "Invalid listing: invalid marketplace"
  ELSE "ok"

\* title.trim(): a title is a sequence of words, " " is white space
RECURSIVE trimStart(_)
trimStart(title) ==
  IF title # <<>> /\ Head(title) = " " THEN trimStart(Tail(title)) ELSE title

RECURSIVE trimEnd(_)
trimEnd(title) ==
  IF title # <<>> /\ title[Len(title)] = " "
  THEN trimEnd(SubSeq(title, 1, Len(title) - 1)) ELSE title

trim(title) == trimEnd(trimStart(title))

\* marketplace.toLowerCase() on the names in use
toLowerCase(name) ==
  CASE name = "Ebay" -> "ebay"
    [] name = "EBAY" -> "ebay"
    [] OTHER -> name

normalizeListing(listing) ==
  [listing EXCEPT !.marketplace = Some(toLowerCase(@[1])),
                  !.title = Some(trim(@[1]))]

\* storeListings(listings, env) on the bucket: validate, normalize and put
\* listing after listing; the put of listing failAt rejects (0: none does).
\* puts is the sequence of puts that were carried out.
RECURSIVE storeListingsFrom(_, _, _, _, _)
storeListingsFrom(listings, n, bucket, puts, failAt) ==
  IF n > Len(listings)
  THEN [threw |-> FALSE, error |-> "none", bucket |-> bucket, puts |-> puts]
  ELSE LET listing == listings[n]
           valid == validateListing(listing)
           normalized == normalizeListing(listing)
       IN IF valid # "ok"
          THEN [threw |-> TRUE, error |-> valid, bucket |-> bucket, puts |-> puts]
          ELSE IF n = failAt
          THEN [threw |-> TRUE, error |-> "put failed", bucket |-> bucket,
                puts |-> puts]
          ELSE storeListingsFrom(listings, n + 1,
                                 Put(bucket, listing.id[1], normalized),
                                 Append(puts, normalized), failAt)

storeListings(listings, bucket, failAt) ==
  storeListingsFrom(listings, 1, bucket, <<>>, failAt)

\* the listing the scrapers produced for an evaluated listing
ListingOf(item) ==
  ScrapedListing(Some(item.id), Some(item.title), Some(item.price),
                 Some(item.marketplace))

\* batches handed to storeListings: valid listings, one of them with white
\* space around its title and two under the same id, and invalid ones
StoreInputs ==
  { ScrapedListing(Some("s1"), Some(<<" ", "ps5", " ">>), Some(375), Some("ebay")),
    ScrapedListing(Some("s2"), Some(<<"tv">>), Some(150), Some("facebook")),
    ScrapedListing(Some("s1"), Some(<<"ps5">>), Some(300), Some("craigslist")),
    ScrapedListing(Undefined, Some(<<"tv">>), Some(150), Some("ebay")),
    ScrapedListing(Some("s3"), Some(<<>>), Some(150), Some("ebay")),
    ScrapedListing(Some("s3"), Some(<<"tv">>), Undefined, Some("ebay")),
    ScrapedListing(Some("s3"), Some(<<"tv">>), Some(0), Some("ebay")),
    ScrapedListing(Some("s3"), Some(<<"tv">>), Some(-5), Some("ebay")),
    ScrapedListing(Some("s3"), Some(<<"tv">>), Some(150), Undefined),
    ScrapedListing(Some("s3"), Some(<<"tv">>), Some(150), Some("Ebay")),
    ScrapedListing(Some("s3"), Some(<<"tv">>), Some(150), Some("amazon")) }

\* storeListings(listings, env) answers a pending request
ScraperModel_storeListings ==
  /\ lastCall.op = "storeRequest"
  /\ LET r == storeListings(lastCall.listings, listingBucket, lastCall.failAt)
     IN /\ listingBucket' = r.bucket
        /\ lastCall' = [op |-> "storeListings", listings |-> lastCall.listings,
                        failAt |-> lastCall.failAt, threw |-> r.threw,
                        error |-> r.error, puts |-> r.puts]
  /\ UNCHANGED <<decisionVars, txVars, invVars, now, failures, scan>>

\* faulty variant: the listings are returned without being stored
scrapeMarketplaces_noStore(source, bucket, failAt) ==
  [threw |-> FALSE, bucket |-> bucket,
   listings |-> [n \in DOMAIN source |-> ListingOf(source[n])]]

\* scrapeMarketplaces after the three scrapers have answered: all listings
\* are stored, then returned
scrapeMarketplaces(source, bucket, failAt) ==
  LET allListings == [n \in DOMAIN source |-> ListingOf(source[n])]
      r == storeListings(allListings, bucket, failAt)
  IN [threw |-> r.threw, bucket |-> r.bucket,
      listings |-> IF r.threw THEN <<>> ELSE allListings]

(***************************************************************************)
(* api-router: orchestrateScan and the POST /config handler                *)
(***************************************************************************)
\* values as JavaScript sees them: an array, or an object with properties
ArrayValue(items) == [kind |-> "array", items |-> items]
ObjectValue(fields) == [kind |-> "object", fields |-> fields]

\* value.name: undefined unless value is an object that has the property
GetProperty(value, name) ==
  IF value.kind = "object" /\ name \in DOMAIN value.fields
  THEN Some(value.fields[name]) ELSE Undefined

\* opt || dflt for an array or undefined
OrElse(opt, dflt) == IF opt = Undefined THEN dflt ELSE opt[1]

DefaultScanBudget == 5000     \* the budget orchestrateScan passes on every scan

SortedByScore(evaluated) ==
  \A n, m \in DOMAIN evaluated : n < m => evaluated[n].score >= evaluated[m].score

\* what the valuation service hands to orchestrateScan for a non-empty scrape
ScanBatches == {b \in Batches : b # <<>> /\ SortedByScore(b)}

IdleScan == [pc |-> "idle", source |-> <<>>, listings |-> <<>>,
             evaluated |-> <<>>, stages |-> <<>>]

\* the result orchestrateScan returns, or the error it rethrows
ScanResult(threw, stages, listings, evaluated, made, decisions) ==
  [op |-> "orchestrateScan", threw |-> threw, stages |-> stages, made |-> made,
   result |-> [listings |-> listings, evaluated |-> evaluated,
               decisions |-> decisions]]

\* orchestrateScan up to its await on SCRAPER_SERVICE.scrapeMarketplaces;
\* source is what the marketplaces hold, with the valuation of each listing
orchestrateScan_Scrape(source) ==
  /\ scan.pc = "idle"
  /\ NoneRunning
  /\ actorState.stats.listings_scanned + Len(source) <= MaxScanned
  /\ scan' = [IdleScan EXCEPT !.pc = "scraping", !.source = source,
                              !.stages = <<<<"scrape", "called">>>>]
  /\ UNCHANGED <<decisionVars, txVars, invVars, lastCall, now, failures,
                 listingBucket>>

\* ScraperService.scrapeMarketplaces: the three scrapers, then storeListings;
\* a scraper may reject, and the put of listing failAt may reject
ScraperService_scrapeMarketplaces(scrapeOk, failAt) ==
  /\ scan.pc = "scraping"
  /\ failAt \in 0..Len(scan.source)
  /\ IF ~scrapeOk
     THEN /\ failAt = 0
          /\ scan' = [scan EXCEPT !.pc = "failed",
                                  !.stages = Append(@, <<"scrape", "threw">>)]
          /\ UNCHANGED listingBucket
     ELSE LET r == scrapeMarketplaces(scan.source, listingBucket, failAt)
          IN /\ listingBucket' = r.bucket
             /\ scan' = IF r.threw
                        THEN [scan EXCEPT !.pc = "failed",
                                !.stages = Append(@, <<"scrape", "threw">>)]
                        ELSE [scan EXCEPT !.pc = "scraped",
                                !.listings = r.listings,
                                !.stages = Append(@, <<"scrape", "returned">>)]
  /\ UNCHANGED <<decisionVars, txVars, invVars, lastCall, now, failures>>

\* orchestrateScan when the scraper found nothing
orchestrateScan_Empty ==
  /\ scan.pc = "scraped"
  /\ Len(scan.listings) = 0
  /\ lastCall' = ScanResult(FALSE, scan.stages, <<>>, <<>>, <<>>, <<>>)
  /\ scan' = IdleScan
  /\ UNCHANGED <<decisionVars, txVars, invVars, now, failures, listingBucket>>

\* orchestrateScan over its await on VALUATION_SERVICE.evaluateListings: the
\* service answers with the evaluated listings, or the call rejects
orchestrateScan_Evaluate(evaluateOk) ==
  /\ scan.pc = "scraped"
  /\ Len(scan.listings) # 0
  /\ scan' = IF evaluateOk
             THEN [scan EXCEPT !.pc = "evaluated", !.evaluated = scan.source,
                     !.stages = @ \o <<<<"evaluate", "called">>,
                                       <<"evaluate", "returned">>>>]
             ELSE [scan EXCEPT !.pc = "failed",
                     !.stages = @ \o <<<<"evaluate", "called">>,
                                       <<"evaluate", "threw">>>>]
  /\ UNCHANGED <<decisionVars, txVars, invVars, lastCall, now, failures,
                 listingBucket>>

\* orchestrateScan up to the first await inside DecisionActor.makeDecisions
orchestrateScan_Decide(i) ==
  /\ scan.pc = "evaluated"
  /\ MakeDecisionsBegin(i, scan.evaluated, Some(DefaultScanBudget))
  /\ scan' = [scan EXCEPT !.pc = "deciding",
                          !.stages = Append(@, <<"decide", "called">>)]
  /\ UNCHANGED listingBucket

\* makeDecisions returned its array, or threw; orchestrateScan reads the
\* property 'decisions' of what it got
orchestrateScan_Return(i) ==
  /\ scan.pc = "deciding"
  /\ md[i].pc \in {"done", "failed"}
  /\ md' = [md EXCEPT ![i] = IdleMd]
  /\ IF md[i].pc = "failed"
     THEN lastCall' = ScanResult(TRUE, Append(scan.stages, <<"decide", "threw">>),
                                 <<>>, <<>>, <<>>, <<>>)
     ELSE LET decisionResult == ArrayValue(md[i].decisions)
              decisions == OrElse(GetProperty(decisionResult, "decisions"), <<>>)
          IN lastCall' = ScanResult(FALSE,
                                    Append(scan.stages, <<"decide", "returned">>),
                                    scan.listings, scan.evaluated,
                                    md[i].decisions, decisions)
  /\ scan' = IdleScan
  /\ UNCHANGED <<actorState, stored, txVars, invVars, now, failures,
                 listingBucket>>

\* the catch of orchestrateScan after the scraper or the valuation service
\* failed: the error is logged and thrown again
orchestrateScan_Rethrow ==
  /\ scan.pc = "failed"
  /\ lastCall' = ScanResult(TRUE, scan.stages, <<>>, <<>>, <<>>, <<>>)
  /\ scan' = IdleScan
  /\ UNCHANGED <<decisionVars, txVars, invVars, now, failures, listingBucket>>

\* an evaluated listing as the decision model reads it: profit_margin in whole
\* percent and the score in whole points, both rounded down, which leaves
\* every comparison with a whole threshold as it is
AsEvaluated(e) ==
  [id |-> e.id, title |-> e.title, url |-> <<"url", e.id>>,
   marketplace |-> MarketplaceOf(e.id), category |-> CategoryOf(e.id),
   price |-> e.price, profit_potential |-> e.profit_potential,
   profit_margin |-> (e.profit_margin.num * 100) \div e.profit_margin.den,
   score |-> e.score.num \div e.score.den,
   estimated_resale |-> e.estimated_resale]

\* titles of the products of the reference table and of an unknown product,
\* plain and with a scarcity keyword
PipelineTitles ==
  {<<k>> : k \in {"iphone", "macbook", "ps5", "laptop", "tv", "gadget"}}
    \cup {<<"rare", k>> : k \in {"iphone", "macbook", "ps5", "laptop", "tv", "gadget"}}

\* one scan of the pipeline answers a pending request: evaluateListings, then
\* makeDecisions(evaluated, 5000) on a DecisionActor in its initial state
Pipeline_evaluateAndDecide ==
  /\ lastCall.op = "pipelineRequest"
  /\ LET evaluated == evaluateListings(lastCall.listings)
         state == [createInitialState EXCEPT !.budget = DefaultScanBudget]
         r == makeDecisions([n \in DOMAIN evaluated |-> AsEvaluated(evaluated[n])],
                            state)
     IN lastCall' = [op |-> "pipeline", listings |-> lastCall.listings,
                     evaluated |-> evaluated, decisions |-> r.decisions]
  /\ UNCHANGED <<decisionVars, txVars, invVars, now, failures, scanVars>>

\* a JSON value of a request body: absent, a number or a string
Absent == <<>>
Num(n) == <<"number", n>>
Str(x) == <<"string", x>>

IsNumber(v) == v # Absent /\ v[1] = "number"
IsString(v) == v # Absent /\ v[1] = "string"

\* !v is false
Truthy(v) ==
  /\ v # Absent
  /\ IsNumber(v) => v[2] # 0
  /\ IsString(v) => v[2] # ""

ConfigFields == {"budget", "minProfitMargin", "minProfit", "maxPerMarketplace",
                 "category"}

\* the test of the POST /config handler that answers 400
InvalidConfig(body) ==
  \/ ~Truthy(body.budget)
  \/ ~IsNumber(body.minProfitMargin)
  \/ ~Truthy(body.minProfit)
  \/ ~Truthy(body.maxPerMarketplace)
  \/ ~Truthy(body.category)

\* POST /config: validate, then DecisionActor.updateConfig(config)
PostConfig(body) ==
  /\ NoneRunning
  /\ IF InvalidConfig(body)
     THEN /\ lastCall' = [op |-> "POST /config", status |-> 400,
                          called |-> FALSE, body |-> body]
          /\ UNCHANGED <<actorState, stored>>
     ELSE /\ actorState' = configure(Some(body.budget[2]), actorState)
          /\ stored' = Some(Persisted(actorState'))
          /\ lastCall' = [op |-> "POST /config", status |-> 200,
                          called |-> TRUE, body |-> body]
  /\ UNCHANGED <<md, txVars, invVars, now, failures, scanVars>>

\* bodies with every field present and of the documented type
TypedConfigBodies ==
  {[budget |-> Num(b), minProfitMargin |-> Num(m), minProfit |-> Num(q),
    maxPerMarketplace |-> Num(5), category |-> Str("electronics")] :
     b \in {1000, 5000}, m \in {10, 20}, q \in {30, 50}}

\* bodies with fields absent, zero, or of another type
JsonValues == {Absent, Num(0), Num(1000), Str("x")}
AnyConfigBodies == [ConfigFields -> JsonValues]

(***************************************************************************)
(* transaction-actor/index.ts: the TransactionActor called directly        *)
(***************************************************************************)
TxItems == {it \in Catalogue : it.id \in {"a", "b"}}

\* items as the inventory hands them to processResale
ResaleItems ==
  UNION {{[InventoryItem(it, 0) EXCEPT !.status = "listed", !.resale_price = rp] :
            rp \in {Undefined, Some(it.price + 500)}} : it \in TxItems}

TransactionActor_processPurchase(item, putOk) ==
  /\ PutOutcome(putOk)
  /\ Len(transactionState.transactions) < MaxTx
  /\ LET r == processPurchase(item, transactionState, txBucket, now, putOk)
     IN /\ transactionState' = r.state
        /\ txBucket' = r.bucket
        /\ lastCall' = [op |-> "processPurchase", id |-> item.id,
                        putOk |-> putOk, threw |-> r.threw]
  /\ UNCHANGED <<decisionVars, invVars, now, scanVars>>

TransactionActor_processResale(item, putOk) ==
  /\ PutOutcome(putOk)
  /\ Len(transactionState.transactions) < MaxTx
  /\ LET r == processResale(item, transactionState, txBucket, now, putOk)
     IN /\ transactionState' = r.state
        /\ txBucket' = r.bucket
        /\ lastCall' = [op |-> "processResale", id |-> item.id,
                        putOk |-> putOk, threw |-> r.threw]
  /\ UNCHANGED <<decisionVars, invVars, now, scanVars>>

TransactionActor_getFinancialStats ==
  /\ lastCall' = [op |-> "getFinancialStats",
                  result |-> getFinancialStats(transactionState)]
  /\ UNCHANGED <<decisionVars, txVars, invVars, now, failures, scanVars>>

\* time passes between two reads of the clock
Tick ==
  /\ now < MaxClock
  /\ now' = now + 1
  /\ UNCHANGED <<decisionVars, txVars, invVars, lastCall, failures, scanVars>>

(***************************************************************************)
(* inventory-actor/index.ts: the InventoryActor called directly            *)
(***************************************************************************)
InvItems == {it \in Catalogue : it.id \in {"a", "b"} /\ it.price = 3000}

\* pre is the inventory when the sweep started, prev the call that completed
\* last before it
IdleRl == [pc |-> "idle", purchasedItems |-> <<>>, k |-> 1,
           listings |-> <<>>, pending |-> Undefined,
           pre |-> <<>>, prev |-> NoCall]

Relisting(i) == rl[i].pc # "idle"
NoneRelisting == \A i \in Invs : ~Relisting(i)

InventoryActor_processNewPurchase(item, putOk) ==
  /\ PutOutcome(putOk)
  /\ NoneRelisting
  /\ LET r == processNewPurchase(item, inventoryState, invBucket, now, putOk)
     IN /\ inventoryState' = r.state
        /\ invBucket' = r.bucket
        /\ lastCall' = [op |-> "processNewPurchase", id |-> item.id,
                        putOk |-> putOk, threw |-> r.threw]
  /\ UNCHANGED <<decisionVars, txVars, rl, now, scanVars>>

\* updateItemStatus of the inventory model, called on its own
Model_updateItemStatus(id, status, putOk) ==
  /\ NoneRelisting
  /\ IF invHas(inventoryState.inventory, id) THEN PutOutcome(putOk)
     ELSE putOk /\ UNCHANGED failures
  /\ LET r == updateItemStatus(id, status, inventoryState, invBucket, now, putOk)
     IN /\ inventoryState' = r.state
        /\ invBucket' = r.bucket
        /\ lastCall' = [op |-> "updateItemStatus", id |-> id,
                        putOk |-> putOk, threw |-> r.threw]
  /\ UNCHANGED <<decisionVars, txVars, rl, now, scanVars>>

\* relistItems: the loop body for purchasedItems[k] up to the await inside
\* updateItemStatus; past the last item the sweep returns its listings
RelistIteration(r, k, state) ==
  IF k > Len(r.purchasedItems)
  THEN [rl |-> [r EXCEPT !.pc = "done", !.k = k, !.pending = Undefined],
        state |-> state]
  ELSE LET item == r.purchasedItems[k]
           listings == Append(r.listings, createReListing(item, now))
       IN IF ~invHas(state.inventory, item.id)
          THEN [rl |-> [r EXCEPT !.pc = "failed", !.k = k, !.listings = listings,
                                 !.pending = Undefined],
                state |-> state]
          ELSE LET s1 == updateItemStatusSync(item.id, "listed", state, now)
               IN [rl |-> [r EXCEPT !.pc = "put1", !.k = k, !.listings = listings,
                                    !.pending = Some(invGet(s1.inventory, item.id))],
                   state |-> s1]

relistItemsBegin(i) ==
  /\ ~Relisting(i)
  /\ LET purchasedItems == SelectSeq(inventoryState.inventory, IsPurchased)
         r == RelistIteration([IdleRl EXCEPT !.purchasedItems = purchasedItems,
                                             !.pre = inventoryState.inventory,
                                             !.prev = lastCall],
                              1, inventoryState)
     IN /\ rl' = [rl EXCEPT ![i] = r.rl]
        /\ inventoryState' = r.state
  /\ UNCHANGED <<decisionVars, txVars, invBucket, lastCall, now, failures, scanVars>>

\* the put of updateItemStatus completes; then resale_price is set on the
\* item of the map and the second put is issued
relistItemsPut1(i, putOk) ==
  /\ PutOutcome(putOk)
  /\ rl[i].pc = "put1"
  /\ IF ~putOk
     THEN /\ rl' = [rl EXCEPT ![i].pc = "failed", ![i].pending = Undefined]
          /\ UNCHANGED <<inventoryState, invBucket>>
     ELSE LET item == rl[i].purchasedItems[rl[i].k]
          IN /\ invBucket' = Put(invBucket, item.id, rl[i].pending[1])
             /\ IF invHas(inventoryState.inventory, item.id)
                THEN LET updatedItem ==
                           [invGet(inventoryState.inventory, item.id) EXCEPT
                              !.resale_price = Some(item.estimated_resale)]
                     IN /\ inventoryState' =
                             [inventoryState EXCEPT
                                !.inventory = invSet(@, item.id, updatedItem)]
                        /\ rl' = [rl EXCEPT ![i].pc = "put2",
                                            ![i].pending = Some(updatedItem)]
                ELSE LET r == RelistIteration(rl[i], rl[i].k + 1, inventoryState)
                     IN /\ rl' = [rl EXCEPT ![i] = r.rl]
                        /\ inventoryState' = r.state
  /\ UNCHANGED <<decisionVars, txVars, lastCall, now, scanVars>>

\* the put of the item with its resale_price completes; next iteration
relistItemsPut2(i, putOk) ==
  /\ PutOutcome(putOk)
  /\ rl[i].pc = "put2"
  /\ IF ~putOk
     THEN /\ rl' = [rl EXCEPT ![i].pc = "failed", ![i].pending = Undefined]
          /\ UNCHANGED <<inventoryState, invBucket>>
     ELSE LET item == rl[i].purchasedItems[rl[i].k]
              r == RelistIteration(rl[i], rl[i].k + 1, inventoryState)
          IN /\ invBucket' = Put(invBucket, item.id, rl[i].pending[1])
             /\ rl' = [rl EXCEPT ![i] = r.rl]
             /\ inventoryState' = r.state
  /\ UNCHANGED <<decisionVars, txVars, lastCall, now, scanVars>>

\* relistItems hands its listings, or the error, to its caller
relistItemsReturn(i) ==
  /\ rl[i].pc \in {"done", "failed"}
  /\ rl' = [rl EXCEPT ![i] = IdleRl]
  /\ lastCall' = [op |-> "relistItems", threw |-> rl[i].pc = "failed",
                  listings |-> IF rl[i].pc = "failed" THEN <<>> ELSE rl[i].listings]
  /\ UNCHANGED <<decisionVars, txVars, inventoryState, invBucket, now, failures, scanVars>>

(***************************************************************************)
(* Specifications                                                          *)
(***************************************************************************)
InitActors ==
  /\ scan = IdleScan
  /\ listingBucket = EmptyBucket
  /\ actorState = createInitialState
  /\ stored = Undefined
  /\ md = [i \in Invs |-> IdleMd]
  /\ transactionState = initialTransactionState
  /\ txBucket = EmptyBucket
  /\ inventoryState = initialInventoryState
  /\ invBucket = EmptyBucket
  /\ rl = [i \in Invs |-> IdleRl]
  /\ now = 0
  /\ failures = 0

Init == InitActors /\ lastCall = NoCall

\* the DecisionActor and the ledger calls it makes, one invocation at a time
Next ==
  \/ \E evaluated \in Batches, budget \in BudgetArgs :
       NoneRunning /\ MakeDecisionsBegin("i1", evaluated, budget)
                   /\ UNCHANGED scanVars
  \/ \E putOk \in BOOLEAN : LedgerTransaction("i1", putOk)
  \/ \E putOk \in BOOLEAN : LedgerInventory("i1", putOk)
  \/ SaveState("i1")
  \/ MakeDecisionsReturn("i1")
  \/ getStats
  \/ \E budget \in ConfigBudgets : updateConfig(budget)
  \/ resetState
  \/ Restart

Spec == Init /\ [][Next]_vars

\* the TransactionActor on its own
NextTx ==
  \/ \E item \in TxItems, putOk \in BOOLEAN :
       TransactionActor_processPurchase(item, putOk)
  \/ \E item \in ResaleItems, putOk \in BOOLEAN :
       TransactionActor_processResale(item, putOk)
  \/ TransactionActor_getFinancialStats
  \/ Tick

SpecTx == Init /\ [][NextTx]_vars

\* the api-router: scans and configuration requests, one at a time
NextApi ==
  \/ \E source \in ScanBatches \cup {<<>>} : orchestrateScan_Scrape(source)
  \/ \E scrapeOk \in BOOLEAN, failAt \in 0..MaxBatch :
       ScraperService_scrapeMarketplaces(scrapeOk, failAt)
  \/ orchestrateScan_Empty
  \/ \E evaluateOk \in BOOLEAN : orchestrateScan_Evaluate(evaluateOk)
  \/ orchestrateScan_Decide("i1")
  \/ \E putOk \in BOOLEAN : LedgerTransaction("i1", putOk)
  \/ \E putOk \in BOOLEAN : LedgerInventory("i1", putOk)
  \/ SaveState("i1")
  \/ orchestrateScan_Return("i1")
  \/ orchestrateScan_Rethrow
  \/ \E body \in TypedConfigBodies : scan.pc = "idle" /\ PostConfig(body)

SpecApi == Init /\ [][NextApi]_vars

\* makeDecisions invocations that may overlap: a second one may start while
\* the first is suspended at an await
NextOverlap ==
  \/ \E evaluated \in Batches, budget \in BudgetArgs :
       NoneRunning /\ MakeDecisionsBegin("i1", evaluated, budget)
                   /\ UNCHANGED scanVars
  \/ \E evaluated \in Batches, budget \in BudgetArgs :
       Running("i1") /\ MakeDecisionsBegin("i2", evaluated, budget)
                     /\ UNCHANGED scanVars
  \/ \E i \in Invs, putOk \in BOOLEAN : LedgerTransaction(i, putOk)
  \/ \E i \in Invs, putOk \in BOOLEAN : LedgerInventory(i, putOk)
  \/ \E i \in Invs : SaveState(i)
  \/ \E i \in Invs : MakeDecisionsReturn(i)

SpecOverlap == Init /\ [][NextOverlap]_vars

\* scans only: no updateConfig, no resetState
NextScans ==
  \/ \E source \in ScanBatches \cup {<<>>} : orchestrateScan_Scrape(source)
  \/ \E scrapeOk \in BOOLEAN, failAt \in 0..MaxBatch :
       ScraperService_scrapeMarketplaces(scrapeOk, failAt)
  \/ orchestrateScan_Empty
  \/ \E evaluateOk \in BOOLEAN : orchestrateScan_Evaluate(evaluateOk)
  \/ orchestrateScan_Decide("i1")
  \/ \E putOk \in BOOLEAN : LedgerTransaction("i1", putOk)
  \/ \E putOk \in BOOLEAN : LedgerInventory("i1", putOk)
  \/ SaveState("i1")
  \/ orchestrateScan_Return("i1")
  \/ orchestrateScan_Rethrow

SpecScans == Init /\ [][NextScans]_vars

\* the valuation service on lists of scraped listings
InitVal ==
  /\ InitActors
  /\ lastCall \in {[op |-> "request", listings |-> listings] :
                      listings \in SeqsUpTo(ScrapedListings, MaxListings)}

NextVal == ValuationService_evaluateListings

SpecVal == InitVal /\ [][NextVal]_vars

\* the historical heuristic on pairs of prices
InitScore ==
  /\ InitActors
  /\ lastCall \in {[op |-> "scoreRequest", historical |-> h, prices |-> <<p, q>>] :
                      h \in {r \in PriceRanges : r.min <= r.max},
                      p \in Prices, q \in Prices}

NextScore == Heuristic_calculateHistoricalScore

SpecScore == InitScore /\ [][NextScore]_vars

\* storeListings on batches of valid and invalid listings
InitStore ==
  /\ InitActors
  /\ lastCall \in {[op |-> "storeRequest", listings |-> listings, failAt |-> failAt] :
                      listings \in SeqsUpTo(StoreInputs, MaxStore),
                      failAt \in 0..MaxStore}

NextStore == ScraperModel_storeListings

SpecStore == InitStore /\ [][NextStore]_vars

\* the pipeline on one listing of every product at every price
InitPipeline ==
  /\ InitActors
  /\ lastCall \in {[op |-> "pipelineRequest",
                     listings |-> <<Listing("p1", title, price)>>] :
                      title \in PipelineTitles, price \in 1..MaxPrice}

NextPipeline == Pipeline_evaluateAndDecide

SpecPipeline == InitPipeline /\ [][NextPipeline]_vars

\* POST /config with any request body
NextConfig == \E body \in AnyConfigBodies : PostConfig(body)

SpecConfig == Init /\ [][NextConfig]_vars

\* the InventoryActor on its own, one call at a time
NextInv ==
  \/ \E item \in InvItems, putOk \in BOOLEAN :
       InventoryActor_processNewPurchase(item, putOk)
  \/ \E id \in {it.id : it \in InvItems} \cup {"zz"}, status \in Statuses,
        putOk \in BOOLEAN :
       Model_updateItemStatus(id, status, putOk)
  \/ NoneRelisting /\ relistItemsBegin("i1")
  \/ \E putOk \in BOOLEAN : relistItemsPut1("i1", putOk)
  \/ \E putOk \in BOOLEAN : relistItemsPut2("i1", putOk)
  \/ relistItemsReturn("i1")

SpecInv == Init /\ [][NextInv]_vars

\* the InventoryActor with relistItems sweeps that may overlap: a second
\* sweep may start while the first is suspended at a put
NextSweeps ==
  \/ \E item \in InvItems, putOk \in BOOLEAN :
       InventoryActor_processNewPurchase(item, putOk)
  \/ NoneRelisting /\ relistItemsBegin("i1")
  \/ rl["i1"].pc \in {"put1", "put2"} /\ relistItemsBegin("i2")
  \/ \E i \in Invs, putOk \in BOOLEAN : relistItemsPut1(i, putOk)
  \/ \E i \in Invs, putOk \in BOOLEAN : relistItemsPut2(i, putOk)
  \/ \E i \in Invs : relistItemsReturn(i)

SpecSweeps == Init /\ [][NextSweeps]_vars

(***************************************************************************)
(* Properties                                                              *)
(***************************************************************************)
BuyAt(e) == e.decision.action = "BUY"

\* the iterations of the decision loops of all invocations
TraceEntries == UNION {SetOf(md[i].trace) : i \in Invs}

RECURSIVE BuyPrices(_)
BuyPrices(decisions) ==
  IF decisions = <<>> THEN 0
  ELSE (IF Head(decisions).action = "BUY" THEN Head(decisions).price ELSE 0)
       + BuyPrices(Tail(decisions))

BuyCount(decisions) == Cardinality({n \in DOMAIN decisions : decisions[n].action = "BUY"})

\* C1 (state part): a listing whose id is in purchasedIds when it is evaluated
\* is decided SKIP with the reasoning 'Already purchased this item', whatever
\* its score, price or profit; no id is bought twice in one batch.
C1_SkippedInBatch ==
  /\ \A e \in TraceEntries :
       e.item.id \in SetOf(e.before.purchasedIds)
         => /\ e.decision.action = "SKIP"
            /\ e.decision.reasoning = <<"Already purchased this item">>
  /\ \A i \in Invs : \A n, m \in DOMAIN md[i].decisions :
       (n < m /\ md[i].decisions[n].action = "BUY"
              /\ md[i].decisions[m].action = "BUY")
         => md[i].decisions[n].item_id # md[i].decisions[m].item_id

\* C1 (step part): a batch never decides BUY for an id that was in the
\* actor's purchasedIds when the batch started.
C1_SkippedInLaterBatch ==
  \A i \in Invs :
    (md[i].pc = "idle" /\ md'[i].pc # "idle")
      => \A n \in DOMAIN md'[i].decisions :
           md'[i].decisions[n].item_id \in SetOf(actorState.purchasedIds)
             => /\ md'[i].decisions[n].action = "SKIP"
                /\ md'[i].decisions[n].reasoning = <<"Already purchased this item">>

\* C1: an id that is in purchasedIds is decided SKIP 'Already purchased this
\* item' and never receives a second BUY, in the same batch or a later one.
C1_NoSecondBuy == []C1_SkippedInBatch /\ [][C1_SkippedInLaterBatch]_vars

\* a listing that passes every other check is skipped as already purchased
C1_Witness ==
  \E e \in TraceEntries :
    /\ e.item.id \in SetOf(e.before.purchasedIds)
    /\ e.item.price <= e.before.budget
    /\ e.item.profit_margin >= MIN_PROFIT_MARGIN
    /\ e.item.profit_potential >= MIN_PROFIT
    /\ e.decision.action = "SKIP"

KeepsIds == SetOf(actorState.purchasedIds) \subseteq SetOf(actorState'.purchasedIds)

\* C2 as claimed: purchasedIds only ever grows under the actor's public
\* operations makeDecisions, getStats, updateConfig and resetState.
C2_OnlyGrows == [][Restart \/ KeepsIds]_vars

\* C2 amended: on one actor instance makeDecisions, getStats and updateConfig
\* keep every id of purchasedIds; resetState empties purchasedIds.
C2_GrowsUntilReset ==
  [][/\ resetState => actorState'.purchasedIds = <<>>
     /\ (~resetState /\ ~Restart) => KeepsIds]_vars

\* two ids were bought and a later updateConfig kept them
C2_Witness ==
  /\ Len(actorState.purchasedIds) = 2
  /\ actorState.budget = -100
  /\ NoneRunning

\* C3: in a batch that starts with budget B >= 0, each listing is checked
\* against B minus the prices of the earlier BUYs of the batch; the prices of
\* the BUYs sum to at most B and the remaining budget is never negative.
C3_BudgetRespected ==
  \A i \in Invs :
    (Running(i) /\ md[i].pre.budget >= 0)
      => /\ \A n \in DOMAIN md[i].trace :
              LET e == md[i].trace[n]
                  spent == BuyPrices(SubSeq(md[i].decisions, 1, n - 1))
              IN /\ e.before.budget = md[i].pre.budget - spent
                 /\ BuyAt(e) => e.item.price <= md[i].pre.budget - spent
                 /\ e.after.budget >= 0
         /\ BuyPrices(md[i].decisions) <= md[i].pre.budget
         /\ actorState.budget = md[i].pre.budget - BuyPrices(md[i].decisions)
         /\ actorState.budget >= 0

\* two listings of price 3000 against a budget of 5000: one BUY, one SKIP
C3_Witness ==
  \E i \in Invs :
    /\ Running(i)
    /\ md[i].pre.budget = 5000
    /\ Len(md[i].decisions) = 2
    /\ \A n \in {1, 2} : md[i].decisions[n].price = 3000
    /\ md[i].decisions[1].action = "BUY"
    /\ md[i].decisions[2].action = "SKIP"
    /\ md[i].decisions[2].reasoning = <<"Exceeds budget", 3000, 2000>>

\* the reasoning the four checks give in their fixed order
FirstFailingCheck(item, state) ==
  IF item.id \in SetOf(state.purchasedIds) THEN "Already purchased this item"
  ELSE IF item.price > state.budget THEN "Exceeds budget"
  ELSE IF item.profit_margin < 20 THEN "Profit margin too low"
  ELSE IF item.profit_potential < 50 THEN "Profit amount too low"
  ELSE "Strong opportunity"

\* C4: evaluateOpportunity applies (1) already purchased, (2) price exceeds
\* budget, (3) profit_margin < 0.20, (4) profit_potential < 50 in this order,
\* returns SKIP with the reason of the first failing check and BUY exactly
\* when no check fails.
C4_CheckOrder ==
  \A e \in TraceEntries :
    /\ e.item.price > 0
    /\ e.decision.reasoning[1] = FirstFailingCheck(e.item, e.before)
    /\ e.decision.action \in {"BUY", "SKIP"}
    /\ e.decision.action = "BUY"
         <=> ~ \/ e.item.id \in SetOf(e.before.purchasedIds)
               \/ e.item.price > e.before.budget
               \/ e.item.profit_margin < 20
               \/ e.item.profit_potential < 50

\* a listing that is both already purchased and over budget
C4_Witness ==
  \E e \in TraceEntries :
    /\ e.item.id \in SetOf(e.before.purchasedIds)
    /\ e.item.price > e.before.budget
    /\ e.decision.reasoning = <<"Already purchased this item">>

\* C5: a BUY, before the next listing is evaluated, adds the id to
\* purchasedIds, lowers the budget by the price, raises items_purchased by 1,
\* total_invested by the price, expected_profit by profit_potential and
\* potential_revenue by price + profit_potential, and sets expected_roi to
\* expected_profit / total_invested * 100; expected_roi is 0 whenever
\* total_invested is 0.
C5_BuyEffects ==
  /\ \A i \in Invs : \A n \in DOMAIN md[i].trace :
       LET e == md[i].trace[n]
           b == e.before.stats
           a == e.after.stats
       IN /\ n > 1 => e.before = md[i].trace[n - 1].after
          /\ BuyAt(e) =>
               /\ e.item.id \in SetOf(e.after.purchasedIds)
               /\ SetOf(e.after.purchasedIds)
                    = SetOf(e.before.purchasedIds) \cup {e.item.id}
               /\ e.after.budget = e.before.budget - e.item.price
               /\ a.items_purchased = b.items_purchased + 1
               /\ a.total_invested = b.total_invested + e.item.price
               /\ a.expected_profit = b.expected_profit + e.item.profit_potential
               /\ a.potential_revenue
                    = b.potential_revenue + e.item.price + e.item.profit_potential
               /\ a.expected_roi.den > 0
               /\ a.expected_roi.num * a.total_invested
                    = a.expected_profit * 100 * a.expected_roi.den
          /\ a.total_invested = 0 => a.expected_roi.num = 0
  /\ actorState.stats.total_invested = 0 => actorState.stats.expected_roi.num = 0

\* two BUYs in one batch: 2000 + 3000 invested, 60 + 1500 profit, ROI 31.2
C5_Witness ==
  \E i \in Invs :
    /\ Len(md[i].trace) = 2
    /\ BuyAt(md[i].trace[1]) /\ BuyAt(md[i].trace[2])
    /\ md[i].trace[2].after.stats.total_invested = 5000
    /\ md[i].trace[2].after.stats.expected_roi = [num |-> 156, den |-> 5]

\* C6: a SKIP leaves the budget, purchasedIds and every field of the stats as
\* they were before the listing was evaluated.
C6_SkipNoEffect ==
  \A e \in TraceEntries :
    e.decision.action = "SKIP"
      => /\ e.after.budget = e.before.budget
         /\ e.after.purchasedIds = e.before.purchasedIds
         /\ e.after.stats = e.before.stats

\* a SKIP that follows a BUY in the same batch
C6_Witness ==
  \E i \in Invs :
    /\ Len(md[i].trace) = 2
    /\ BuyAt(md[i].trace[1])
    /\ md[i].trace[2].decision.action = "SKIP"
    /\ md[i].trace[2].before.stats.items_purchased = 1

\* the ledger calls processPurchases makes for a list of decisions: for each
\* BUY in decision order, processPurchase and then processNewPurchase
RECURSIVE ExpectedCalls(_)
ExpectedCalls(decisions) ==
  IF decisions = <<>> THEN <<>>
  ELSE (IF Head(decisions).action = "BUY"
        THEN <<<<"processPurchase", Head(decisions).item_id>>,
               <<"processNewPurchase", Head(decisions).item_id>>>>
        ELSE <<>>)
       \o ExpectedCalls(Tail(decisions))

CallsMade(i) ==
  [n \in DOMAIN md[i].calls |-> <<md[i].calls[n].op, md[i].calls[n].item.id>>]

\* C7: when a makeDecisions batch completes without a ledger failure, exactly
\* one processPurchase and one processNewPurchase have been invoked for every
\* BUY decision (transaction before inventory, BUYs in decision order, all
\* after the decision loop), and no ledger call for a SKIP decision.
C7_LedgerCallsPerBuy ==
  \A i \in Invs :
    /\ md[i].pc = "done" => CallsMade(i) = ExpectedCalls(md[i].decisions)
    /\ md[i].calls # <<>> => Len(md[i].decisions) = Len(md[i].evaluated)
    /\ \A id \in ItemIds :
         md[i].pc = "done" =>
           Cardinality({n \in DOMAIN md[i].calls :
                          /\ md[i].calls[n].op = "processPurchase"
                          /\ md[i].calls[n].item.id = id})
             = Cardinality({n \in DOMAIN md[i].decisions :
                              /\ md[i].decisions[n].action = "BUY"
                              /\ md[i].decisions[n].item_id = id})

\* a completed batch with a BUY and a SKIP
C7_Witness ==
  \E i \in Invs :
    /\ md[i].pc = "done"
    /\ Len(md[i].calls) = 2
    /\ \E n \in DOMAIN md[i].decisions : md[i].decisions[n].action = "BUY"
    /\ \E n \in DOMAIN md[i].decisions : md[i].decisions[n].action = "SKIP"

TransactionOps == {"processPurchase", "processResale"}

\* C8 (state part): a failing put makes the call fail with that error
C8_PutFailurePropagates ==
  (lastCall.op \in TransactionOps /\ ~lastCall.putOk) => lastCall.threw

\* C8 (step part): a call whose put fails leaves the TransactionState as it was
C8_PutFailureKeepsState ==
  (lastCall'.op \in TransactionOps /\ ~lastCall'.putOk)
    => transactionState' = transactionState

\* C8: when the key-value put fails while a transaction is being recorded,
\* processPurchase and processResale fail with that error and totalInvested,
\* potentialRevenue and the transactions list are unchanged.
C8_FailedPutNoChange ==
  []C8_PutFailurePropagates /\ [][C8_PutFailureKeepsState]_vars

\* a put failed after a transaction had been recorded
C8_Witness ==
  /\ lastCall.op \in TransactionOps
  /\ ~lastCall.putOk
  /\ lastCall.threw
  /\ Len(transactionState.transactions) >= 1

\* C9 (state part): after a ledger failure the actor's memory holds the
\* mutations of every BUY of the batch
C9_MutationsKept ==
  \A i \in Invs :
    (md[i].pc = "failed" /\ md[i].error = "ledger")
      => /\ actorState.budget = md[i].pre.budget - BuyPrices(md[i].decisions)
         /\ \A n \in DOMAIN md[i].decisions :
              md[i].decisions[n].action = "BUY"
                => md[i].decisions[n].item_id \in SetOf(actorState.purchasedIds)
         /\ actorState.stats.items_purchased
              = md[i].pre.stats.items_purchased + BuyCount(md[i].decisions)
         /\ actorState.stats.total_invested
              = md[i].pre.stats.total_invested + BuyPrices(md[i].decisions)
         /\ BuyCount(md[i].decisions) >= 1

\* C9 (step part): a ledger call that fails ends the invocation with the error
C9_FailureReachesCaller ==
  \A i \in Invs :
    (md[i].pc \in {"tx", "inv"} /\ failures' > failures)
      => /\ md'[i].pc = "failed"
         /\ md'[i].error = "ledger"
         /\ stored' = stored

\* C9: a ledger failure during makeDecisions reaches the caller and nothing
\* is rolled back: budget, purchasedIds and stats keep the mutations of every
\* BUY of the batch, also of the BUYs whose ledger calls were never attempted.
C9_NoRollback == []C9_MutationsKept /\ [][C9_FailureReachesCaller]_vars

\* the first ledger call of a batch with two BUYs failed
C9_Witness ==
  \E i \in Invs :
    /\ md[i].pc = "failed"
    /\ md[i].error = "ledger"
    /\ Len(md[i].calls) = 1
    /\ BuyCount(md[i].decisions) = 2
    /\ Len(actorState.purchasedIds) = 2

StatusRank(status) ==
  IF status = "purchased" THEN 1 ELSE IF status = "listed" THEN 2 ELSE 3

\* C10: an inventory item's status only moves forward along
\* purchased -> listed -> sold under processNewPurchase, updateItemStatus and
\* relistItems.
C10_StatusOnlyForward ==
  [][\A n \in DOMAIN inventoryState.inventory :
       LET item == inventoryState.inventory[n]
       IN invHas(inventoryState'.inventory, item.id)
            => StatusRank(invGet(inventoryState'.inventory, item.id).status)
                 >= StatusRank(item.status)]_vars

\* the last call that completed was a relistItems sweep that returned
AfterCompletedSweep(call) == call.op = "relistItems" /\ ~call.threw

\* the ids of the re-listings are those of the items the sweep found purchased
RelistedIds(r) == {r.listings[n].id[2] : n \in DOMAIN r.listings}

\* C11 (state part): a sweep that starts right after a completed sweep
\* returns an empty list and leaves the inventory as it was; no sweep makes a
\* re-listing for an item that was listed or sold when the sweep started
C11_ListedSkipped ==
  \A i \in Invs :
    /\ (Relisting(i) /\ AfterCompletedSweep(rl[i].prev))
         => /\ rl[i].pc = "done"
            /\ rl[i].listings = <<>>
            /\ inventoryState.inventory = rl[i].pre
    /\ \A n \in DOMAIN rl[i].pre :
         rl[i].pre[n].status \in {"listed", "sold"}
           => rl[i].pre[n].id \notin RelistedIds(rl[i])

\* C11 (step part): the second sweep changes no item, in memory or persisted
C11_SecondSweepNoChange ==
  \A i \in Invs :
    (~Relisting(i) /\ rl'[i].pc # "idle" /\ AfterCompletedSweep(lastCall))
      => /\ inventoryState' = inventoryState
         /\ invBucket' = invBucket

\* C11: relistItems run twice in a row with no purchase in between returns
\* re-listings only on the first run: the second run returns an empty list and
\* changes no item; a sweep returns no re-listing for a listed or sold item.
C11_SecondSweepEmpty == []C11_ListedSkipped /\ [][C11_SecondSweepNoChange]_vars

\* the first sweep returned two re-listings, the second none
C11_Witness ==
  \E i \in Invs :
    /\ rl[i].pc = "done"
    /\ AfterCompletedSweep(rl[i].prev)
    /\ Len(rl[i].prev.listings) = 2
    /\ rl[i].listings = <<>>
    /\ \A n \in DOMAIN inventoryState.inventory :
         inventoryState.inventory[n].status = "listed"

\* the re-listings of a sweep made for the item
ListingsFor(r, item) ==
  {n \in DOMAIN r.listings : r.listings[n].id = <<"resale_", item.id>>}

\* what a completed sweep leaves for an item it found purchased
ListedBySweep(r, item) ==
  /\ invHas(inventoryState.inventory, item.id)
  /\ LET cur == invGet(inventoryState.inventory, item.id)
     IN /\ cur.status = "listed"
        /\ cur.listed_date # Undefined
        /\ cur.resale_price = Some(item.estimated_resale)
  /\ item.id \in inventoryState.listedIds
  /\ Cardinality(ListingsFor(r, item)) = 1
  /\ \A n \in ListingsFor(r, item) :
       /\ r.listings[n].price = item.estimated_resale
       /\ r.listings[n].title = item.title
       /\ r.listings[n].marketplace = item.marketplace
       /\ r.listings[n].category = item.category

\* C12: after a relistItems sweep completes, every item that was purchased
\* before the sweep is listed, has a listed_date, resale_price equal to its
\* estimated_resale and its id in listedIds, and the sweep returned exactly one
\* listing 'resale_' + id for it with price estimated_resale and the same
\* title, marketplace and category; every listed item of the inventory has
\* resale_price equal to its estimated_resale.
C12_SweepListsPurchased ==
  \A i \in Invs :
    rl[i].pc = "done"
      => /\ \A n \in DOMAIN rl[i].pre :
              rl[i].pre[n].status = "purchased"
                => ListedBySweep(rl[i], rl[i].pre[n])
         /\ \A n \in DOMAIN inventoryState.inventory :
              LET item == inventoryState.inventory[n]
              IN item.status = "listed"
                   => item.resale_price = Some(item.estimated_resale)

\* the step is a processPurchase or processResale whose put succeeded
SuccessfulTransaction ==
  /\ lastCall'.op \in TransactionOps
  /\ failures' = failures
  /\ now' = now

\* C13: the transaction log is append-only: a successful processPurchase or
\* processResale adds exactly one transaction to the in-memory list and to the
\* persisted store, and no transaction recorded earlier is changed, overwritten
\* or removed in either, also when two transactions of the same type for the
\* same item carry the same timestamp.
C13_AppendOnly ==
  [][LET old == transactionState.transactions
         new == transactionState'.transactions
     IN /\ Len(new) >= Len(old)
        /\ SubSeq(new, 1, Len(old)) = old
        /\ \A key \in DOMAIN txBucket :
             key \in DOMAIN txBucket' /\ txBucket'[key] = txBucket[key]
        /\ SuccessfulTransaction
             => /\ Len(new) = Len(old) + 1
                /\ Cardinality(DOMAIN txBucket')
                     = Cardinality(DOMAIN txBucket) + 1
                /\ txBucket'[transactionId(new[Len(new)])] = new[Len(new)]]_vars

\* the sum of the amounts of the transactions of one type, taken over the
\* set of their positions in the log
RECURSIVE SumAt(_, _)
SumAt(transactions, positions) ==
  IF positions = {} THEN 0
  ELSE LET n == CHOOSE m \in positions : TRUE
       IN transactions[n].amount + SumAt(transactions, positions \ {n})

AmountOfType(type) ==
  SumAt(transactionState.transactions,
        {n \in DOMAIN transactionState.transactions :
           transactionState.transactions[n].type = type})

\* C14: on a TransactionActor that started empty getFinancialStats reports
\* total_invested = the sum of the purchase amounts of the log and
\* potential_revenue = the sum of the sale amounts, in whatever order the
\* transactions came; expected_profit = potential_revenue - total_invested and
\* expected_roi = expected_profit / total_invested, or 0 when total_invested
\* is 0.
C14_StatsAreSums ==
  lastCall.op = "getFinancialStats"
    => LET r == lastCall.result
       IN /\ r.total_invested = AmountOfType("purchase")
          /\ r.total_invested = calculateSpent(transactionState)
          /\ r.potential_revenue = AmountOfType("sale")
          /\ r.potential_revenue = calculateRevenue(transactionState)
          /\ r.expected_profit = r.potential_revenue - r.total_invested
          /\ r.expected_roi.den > 0
          /\ IF r.total_invested = 0 THEN r.expected_roi.num = 0
             ELSE r.expected_roi.num * r.total_invested
                    = r.expected_profit * r.expected_roi.den

\* a sale recorded before a purchase: 3500 revenue, 3000 invested, ROI 1/6
C14_Witness ==
  /\ lastCall.op = "getFinancialStats"
  /\ Len(transactionState.transactions) = 2
  /\ transactionState.transactions[1].type = "sale"
  /\ transactionState.transactions[2].type = "purchase"
  /\ lastCall.result.total_invested = 3000
  /\ lastCall.result.potential_revenue = 3500
  /\ lastCall.result.expected_roi = [num |-> 1, den |-> 6]

\* C15: for a scan that found at least one listing orchestrateScan returns in
\* 'decisions' exactly the decisions DecisionActor.makeDecisions produced: one
\* per evaluated listing, in the order of the evaluated list.
C15_ScanReturnsDecisions ==
  (lastCall.op = "orchestrateScan" /\ ~lastCall.threw
     /\ lastCall.result.evaluated # <<>>)
    => /\ lastCall.result.decisions = lastCall.made
       /\ Len(lastCall.result.decisions) = Len(lastCall.result.evaluated)
       /\ \A n \in DOMAIN lastCall.result.decisions :
            lastCall.result.decisions[n].item_id = lastCall.result.evaluated[n].id

\* the actions of a batch decided against a remaining budget and against the
\* thresholds minProfitMargin and minProfit of a configuration
RECURSIVE ActionsUnder(_, _, _, _, _)
ActionsUnder(evaluated, purchased, budget, minProfitMargin, minProfit) ==
  IF evaluated = <<>> THEN <<>>
  ELSE LET item == Head(evaluated)
           buy == /\ item.id \notin purchased
                  /\ budget > 0 /\ item.price <= budget
                  /\ item.profit_margin >= minProfitMargin
                  /\ item.profit_potential >= minProfit
       IN IF buy
          THEN <<"BUY">> \o ActionsUnder(Tail(evaluated), purchased \cup {item.id},
                                         budget - item.price,
                                         minProfitMargin, minProfit)
          ELSE <<"SKIP">> \o ActionsUnder(Tail(evaluated), purchased, budget,
                                          minProfitMargin, minProfit)

\* C16: after POST /config has called updateConfig with budget B,
\* minProfitMargin m and minProfit p, the decisions of the next scan are made
\* against remaining budget B and against the thresholds m and p.
C16_ConfigUsedByNextScan ==
  [][\A i \in Invs :
       (lastCall.op = "POST /config" /\ lastCall.called
          /\ ~Running(i) /\ md'[i].pc # "idle")
         => LET config == lastCall.body
            IN /\ md'[i].pre.budget = config.budget[2]
               /\ [n \in DOMAIN md'[i].decisions |-> md'[i].decisions[n].action]
                    = ActionsUnder(md'[i].evaluated,
                                   SetOf(actorState.purchasedIds),
                                   config.budget[2],
                                   config.minProfitMargin[2],
                                   config.minProfit[2])]_vars

\* every field of the body is present and of the documented type
WellTypedConfig(body) ==
  /\ IsNumber(body.budget)
  /\ IsNumber(body.minProfitMargin)
  /\ IsNumber(body.minProfit)
  /\ IsNumber(body.maxPerMarketplace)
  /\ IsString(body.category)

\* C17: POST /config answers 400 without calling updateConfig exactly when
\* one of the five fields is missing or of the wrong type; a body with all
\* five fields of the right type is answered 200 after updateConfig was called.
C17_ConfigValidation ==
  lastCall.op = "POST /config"
    => /\ (lastCall.status = 400 /\ ~lastCall.called)
            <=> ~WellTypedConfig(lastCall.body)
       /\ WellTypedConfig(lastCall.body)
            => (lastCall.status = 200 /\ lastCall.called)

\* C18: evaluateListings returns, for any input list including the empty one,
\* exactly one evaluated listing per input listing, ordered by score
\* descending; listings of equal score keep their relative input order.
C18_SortedStable ==
  lastCall.op = "evaluateListings"
    => LET input == lastCall.listings
           out == lastCall.evaluated
       IN /\ Len(out) = Len(input)
          /\ \E f \in [DOMAIN out -> DOMAIN input] :
               /\ \A n, m \in DOMAIN out : n # m => f[n] # f[m]
               /\ \A n \in DOMAIN out : out[n] = evaluateSingleListing(input[f[n]])
               /\ \A n, m \in DOMAIN out :
                    (n < m /\ ScoreCompare(out[n].score, out[m].score) = 0)
                      => f[n] < f[m]
          /\ \A n, m \in DOMAIN out :
               n < m => ScoreCompare(out[n].score, out[m].score) >= 0

\* v2 before v1 in the input with equal scores, behind a higher score
C18_Witness ==
  /\ lastCall.op = "evaluateListings"
  /\ Len(lastCall.listings) = 3
  /\ lastCall.listings[1].id = "v2"
  /\ lastCall.listings[2].id = "v1"
  /\ lastCall.listings[3].id = "v4"
  /\ lastCall.evaluated[1].id = "v4"
  /\ lastCall.evaluated[2].id = "v2"
  /\ lastCall.evaluated[3].id = "v1"

\* the evaluated listings of the last answer of the valuation service
Evaluated ==
  IF lastCall.op = "evaluateListings" THEN SetOf(lastCall.evaluated) ELSE {}

ScoreInRangeAndFalling(call) ==
  /\ \A n \in DOMAIN call.scores :
       /\ ScoreCompare(call.scores[n], Whole(0)) >= 0
       /\ ScoreCompare(call.scores[n], Whole(100)) <= 0
  /\ (call.historical.min <= call.prices[1] /\ call.prices[1] <= call.prices[2]
        /\ call.prices[2] <= call.historical.max)
       => ScoreCompare(call.scores[1], call.scores[2]) >= 0

\* C21 as claimed: for every reference with min <= max the score does not rise
\* with the price over min <= price <= max, is 100 at price = min and 0 at
\* price = max, and is always within 0..100.
C21_HistoricalScoreShape ==
  lastCall.op = "calculateHistoricalScore"
    => /\ ScoreInRangeAndFalling(lastCall)
       /\ \A n \in DOMAIN lastCall.prices :
            /\ lastCall.prices[n] = lastCall.historical.min
                 => lastCall.scores[n] = Whole(100)
            /\ lastCall.prices[n] = lastCall.historical.max
                 => lastCall.scores[n] = Whole(0)

\* C21 amended: the same for every reference with min < max; for min = max the
\* score is 100 at every price, also at price = max.
C21_HistoricalScoreShapeStrict ==
  lastCall.op = "calculateHistoricalScore"
    => /\ ScoreInRangeAndFalling(lastCall)
       /\ \A n \in DOMAIN lastCall.prices :
            IF lastCall.historical.min < lastCall.historical.max
            THEN /\ lastCall.prices[n] = lastCall.historical.min
                      => lastCall.scores[n] = Whole(100)
                 /\ lastCall.prices[n] = lastCall.historical.max
                      => lastCall.scores[n] = Whole(0)
            ELSE lastCall.scores[n] = Whole(100)

\* two prices strictly inside a range, the higher one with the lower score
C21_Witness ==
  /\ lastCall.op = "calculateHistoricalScore"
  /\ lastCall.historical.min = 100 /\ lastCall.historical.max = 250
  /\ lastCall.prices = <<150, 200>>
  /\ ScoreCompare(lastCall.scores[1], lastCall.scores[2]) > 0
  /\ ScoreCompare(lastCall.scores[2], Whole(0)) > 0

\* the stages of a scan in the order of the source
StageOrder == <<"scrape", "evaluate", "decide">>

\* a record of stage events in which every stage is called only after the
\* stage before it has returned, and nothing follows a stage that threw
WellStaged(stages) ==
  /\ Len(stages) <= 2 * Len(StageOrder)
  /\ \A n \in DOMAIN stages :
       /\ stages[n][1] = StageOrder[(n + 1) \div 2]
       /\ IF n % 2 = 1 THEN stages[n][2] = "called"
          ELSE stages[n][2] \in {"returned", "threw"}
       /\ n > 1 => stages[n - 1][2] # "threw"

StageReturned(stages, stage) ==
  \E n \in DOMAIN stages : stages[n] = <<stage, "returned">>

\* every listing of the list is in the bucket as the last put left it
AllStored(listings, bucket) ==
  \A n \in DOMAIN listings :
    /\ listings[n].id[1] \in DOMAIN bucket
    /\ \E m \in n..Len(listings) :
         /\ listings[m].id = listings[n].id
         /\ bucket[listings[n].id[1]] = normalizeListing(listings[m])

\* C22: orchestrateScan runs scrape, evaluate, decide in this order, each stage
\* called only after the one before has returned; after a stage has failed no
\* later stage is called and the caller gets the error; what the scraper
\* stored stays in the bucket through the later stages and their failures; a
\* scan whose scrape returned no listings calls neither the valuation service
\* nor the decision actor and returns three empty lists.
C22_StagesInOrder ==
  /\ [](/\ WellStaged(scan.stages)
        /\ (scan.pc \notin {"idle", "scraping"}
              /\ StageReturned(scan.stages, "scrape"))
             => AllStored(scan.listings, listingBucket)
        /\ (\E i \in Invs : Running(i)) => scan.pc = "deciding"
        /\ lastCall.op = "orchestrateScan"
             => /\ WellStaged(lastCall.stages)
                /\ lastCall.threw
                     <=> lastCall.stages[Len(lastCall.stages)][2] = "threw"
                /\ (~lastCall.threw /\ lastCall.result.listings = <<>>)
                     <=> lastCall.stages = <<<<"scrape", "called">>,
                                             <<"scrape", "returned">>>>
                /\ lastCall.result.listings = <<>>
                     => /\ lastCall.result.evaluated = <<>>
                        /\ lastCall.result.decisions = <<>>)
  /\ [][/\ scan.pc \notin {"idle", "scraping"} => listingBucket' = listingBucket
        /\ (\E i \in Invs : ~Running(i) /\ md'[i].pc # "idle")
             => /\ scan.stages[Len(scan.stages)] = <<"evaluate", "returned">>
                /\ scan'.pc = "deciding"
        /\ scan.pc \in {"scraping", "scraped", "failed"}
             => UNCHANGED decisionVars]_vars

\* a scan whose decide stage failed after the scraper had stored two listings
C22_Witness ==
  /\ lastCall.op = "orchestrateScan"
  /\ lastCall.threw
  /\ lastCall.stages = <<<<"scrape", "called">>, <<"scrape", "returned">>,
                         <<"evaluate", "called">>, <<"evaluate", "returned">>,
                         <<"decide", "called">>, <<"decide", "threw">>>>
  /\ Cardinality(DOMAIN listingBucket) = 2

\* an invalid listing: id, title, price or marketplace missing, price <= 0,
\* or a marketplace other than ebay, craigslist, facebook
InvalidListing(listing) ==
  \/ listing.id \in {Undefined, Some("")}
  \/ listing.title \in {Undefined, Some(<<>>)}
  \/ listing.price = Undefined
  \/ listing.marketplace \in {Undefined, Some("")}
  \/ listing.price[1] <= 0
  \/ listing.marketplace[1] \notin {"ebay", "craigslist", "facebook"}

FirstInvalid(listings) ==
  CHOOSE k \in DOMAIN listings :
    /\ InvalidListing(listings[k])
    /\ \A n \in 1..(k - 1) : ~InvalidListing(listings[n])

ValidationErrors == {"Invalid listing: missing required fields",
                     "Invalid listing: price must be greater than 0",
                     "Invalid listing: invalid marketplace"}

\* C23: storeListings on a batch with an invalid listing fails, and puts
\* neither the invalid listing nor any listing after it; when no put of an
\* earlier listing is rejected the failure is a validation error and every
\* listing before the invalid one has been put, normalized, and is in the
\* bucket.
C23_InvalidStopsBatch ==
  (lastCall.op = "storeListings"
     /\ \E k \in DOMAIN lastCall.listings : InvalidListing(lastCall.listings[k]))
    => LET listings == lastCall.listings
           k == FirstInvalid(listings)
       IN /\ lastCall.threw
          /\ Len(lastCall.puts) < k
          /\ \A n \in DOMAIN lastCall.puts :
               lastCall.puts[n] = normalizeListing(listings[n])
          /\ DOMAIN listingBucket = {listings[n].id[1] : n \in DOMAIN lastCall.puts}
          /\ lastCall.failAt \notin 1..(k - 1)
               => /\ lastCall.error \in ValidationErrors
                  /\ Len(lastCall.puts) = k - 1
                  /\ AllStored(SubSeq(listings, 1, k - 1), listingBucket)

\* two valid listings stored, the third rejected for its price of zero
C23_Witness ==
  /\ lastCall.op = "storeListings"
  /\ Len(lastCall.listings) = 3
  /\ lastCall.listings[3].price = Some(0)
  /\ lastCall.failAt = 0
  /\ lastCall.threw
  /\ lastCall.error = "Invalid listing: price must be greater than 0"
  /\ DOMAIN listingBucket = {"s1", "s2"}
  /\ listingBucket["s1"].title = Some(<<"ps5">>)

\* C24: when makeDecisions returns its decisions, and after updateConfig and
\* resetState, the record under 'state' is the in-memory state and an actor
\* constructed from it has the same budget, purchasedIds and stats; from the
\* start of a batch up to its failure in a ledger call, and when the failure
\* is handed to the caller, the record is not written.
C24_PersistedIsMemory ==
  [][/\ \A i \in Invs :
          /\ (md[i].pc = "done" /\ md'[i].pc = "idle")
               => /\ stored' = Some(Persisted(actorState'))
                  /\ LoadState(stored') = actorState'
                  /\ Persisted(LoadState(stored')) = stored'[1]
          /\ ((md'[i].pc \notin {"idle", "done"}) \/ md[i].pc = "failed")
               => stored' = stored
     /\ (NoneRunning /\ md' = md /\ stored' # Undefined
           /\ (stored' # stored \/ actorState' # actorState))
          => /\ stored' = Some(Persisted(actorState'))
             /\ LoadState(stored') = actorState']_vars

\* a second batch failed in a ledger call: the record still holds the one
\* purchase of the first batch, the memory holds two
C24_Witness ==
  /\ md["i1"].pc = "failed"
  /\ stored # Undefined
  /\ Len(stored[1].purchasedIds) = 1
  /\ Len(actorState.purchasedIds) = 2

\* C25: over any sequence of scans with no updateConfig and no resetState in
\* between, the prices of all BUY decisions made so far (stats.total_invested
\* adds the price of every BUY) never exceed the initial budget of 5000.
C25_ScansWithinInitialBudget ==
  actorState.stats.total_invested <= InitialBudget

\* C26: no listing id has more than one purchase transaction in the
\* transaction log, whatever batches are decided, also after a failed ledger
\* call, a restart of the DecisionActor from its record, or resetState.
C26_OnePurchasePerId ==
  \A id \in ItemIds :
    Cardinality({n \in DOMAIN transactionState.transactions :
                   /\ IsPurchaseTx(transactionState.transactions[n])
                   /\ transactionState.transactions[n].item_id = id}) <= 1

BuyIds(decisions) ==
  {decisions[n].item_id : n \in {m \in DOMAIN decisions : IsBuy(decisions[m])}}

\* C27: two makeDecisions invocations that are in progress together never
\* both hold a BUY for one listing id; once both have saved (each is at its
\* last await, before it returns its decisions) the record under 'state' is
\* the in-memory state, and purchasedIds and stats hold the purchases of both.
\* An invocation that returns earlier changes neither the memory nor the
\* record by returning, so these states cover every order of completion.
C27_OverlapKeepsPurchases ==
  \A i, j \in Invs :
    (i # j /\ Running(i) /\ Running(j))
      => /\ BuyIds(md[i].decisions) \cap BuyIds(md[j].decisions) = {}
         /\ (md[i].pc = "done" /\ md[j].pc = "done")
              => /\ stored = Some(Persisted(actorState))
                 /\ BuyIds(md[i].decisions) \cup BuyIds(md[j].decisions)
                      \subseteq SetOf(actorState.purchasedIds)
                 /\ actorState.stats.items_purchased
                      >= BuyCount(md[i].decisions) + BuyCount(md[j].decisions)
                 /\ actorState.stats.total_invested
                      >= BuyPrices(md[i].decisions) + BuyPrices(md[j].decisions)

\* both invocations were handed listing 'a': the first bought it, the second,
\* started while the first was suspended, skipped it
C27_Witness ==
  /\ md["i1"].pc = "done" /\ md["i2"].pc = "done"
  /\ BuyIds(md["i1"].decisions) = {"a"}
  /\ BuyIds(md["i2"].decisions) = {}
  /\ \E n \in DOMAIN md["i2"].decisions :
       md["i2"].decisions[n].item_id = "a" /\ ~IsBuy(md["i2"].decisions[n])
  /\ md["i2"].pre.purchasedIds = <<"a">>
  /\ stored = Some(Persisted(actorState))

\* C28: two relistItems sweeps that overlap never both hold a re-listing for
\* the same inventory item in the lists they return.
C28_NoDoubleRelisting ==
  \A i, j \in Invs :
    (i # j /\ rl[i].pc = "done" /\ rl[j].pc = "done")
      => RelistedIds(rl[i]) \cap RelistedIds(rl[j]) = {}

StatsConsistent(state) ==
  /\ state.stats.items_purchased = Cardinality(SetOf(state.purchasedIds))
  /\ state.stats.potential_revenue
       = state.stats.total_invested + state.stats.expected_profit

\* C29: in every state of the DecisionActor, also between two listings of a
\* decision loop and in the state an actor is constructed with from its
\* record, stats.items_purchased is the number of ids in purchasedIds and
\* stats.potential_revenue is stats.total_invested + stats.expected_profit.
C29_StatsMatchPurchases ==
  /\ StatsConsistent(actorState)
  /\ StatsConsistent(LoadState(stored))
  /\ \A i \in Invs : \A n \in DOMAIN md[i].trace :
       StatsConsistent(md[i].trace[n].after)

\* an actor restarted from its record after two purchases
C29_Witness ==
  /\ actorState.stats.items_purchased = 2
  /\ Len(actorState.purchasedIds) = 2
  /\ actorState.stats.potential_revenue = 9000
  /\ NoneRunning
  /\ stored = Some(Persisted(actorState))

\* C30: with the built-in reference data, every listing with price > 0 that
\* the decision engine decides to BUY carries is_undervalued = true from the
\* valuation engine.
C30_BuyImpliesUndervalued ==
  lastCall.op = "pipeline"
    => \A n \in DOMAIN lastCall.decisions :
         IsBuy(lastCall.decisions[n])
           => \E m \in DOMAIN lastCall.evaluated :
                /\ lastCall.evaluated[m].id = lastCall.decisions[n].item_id
                /\ lastCall.evaluated[m].price > 0
                /\ lastCall.evaluated[m].is_undervalued

\* a plain ps5 at 375: margin exactly 0.20, score below 70, bought and flagged
C30_Witness ==
  /\ lastCall.op = "pipeline"
  /\ lastCall.listings = <<Listing("p1", <<"ps5">>, 375)>>
  /\ IsBuy(lastCall.decisions[1])
  /\ lastCall.evaluated[1].is_undervalued
  /\ ScoreCompare(lastCall.evaluated[1].score, Whole(70)) < 0
====
